---- MODULE Spec2Model ----
(***************************************************************************)
(* Model of the magikarp terminal chat session: the bubbletea input model  *)
(* (internal/terminal/input.go), the turn worker processMessageAsync, the  *)
(* runtime state (internal/terminal/ui.go, state.go), the tool registry    *)
(* and the control_state tool.                                             *)
(*                                                                         *)
(* The UI loop (InputModel.Update) handles one message at a time; every    *)
(* submitted input starts a command goroutine (a "worker") that runs       *)
(* concurrently with the UI loop and with the other workers.  Accesses to  *)
(* globalConfig.Tools.Enabled are plain loads and stores, so a worker is   *)
(* modelled one shared access per step.                                    *)
(***************************************************************************)
EXTENDS Integers, Sequences, FiniteSets, TLC

(***************************************************************************)
(* Bounds of the model.                                                    *)
(***************************************************************************)
MaxTurns == 2
MaxCalls == 2
MaxPairs == 2
\* Seconds of the session clock that are explored.
MaxTime == 4
\* Length of the scripts handed to the bash tool.
MaxScript == 3
\* Number of segments of the paths handed to the read_file tool.
MaxPath == 3
\* Number of messages that follow the first user message of a conversation.
MaxMsgs == 2
\* Number of AddTool calls and of Register calls.
MaxTools == 3
MaxBoxes == 2
\* Number of tool results of the turn whose output section is formatted.
MaxResults == 2
\* Number of AddMessage calls on one history manager.
MaxAdds == 2
\* Characters of the input line, and entries of the input history.
MaxInput == 2
MaxHistory == 2
\* Providers of the model-selection tree, and models of one provider.
MaxProviders == 3
MaxModels == 2

(***************************************************************************)
(* Configuration the session was started with (config.yaml).               *)
(***************************************************************************)
SystemPrompt == "You are a helpful coding assistant."

\* providers: section of config.yaml; the gemini key is left unset.
ConfigProviders ==
    [openai |-> <<"M1">>, anthropic |-> <<"M2">>, gemini |-> <<"M3", "M5">>]

ConfigKeySet == [openai |-> TRUE, anthropic |-> TRUE, gemini |-> FALSE]

DefaultModel == "M1"

\* modelToProvider as left by build(): every model of a provider whose key
\* is set maps to that provider's adapter.
modelToProvider ==
    [m \in {"M1", "M2"} |-> IF m = "M1" THEN "openai" ELSE "anthropic"]

\* orchestration.ProviderFor: ok iff the model is a key of the map.
ProviderForOk(model) == model \in DOMAIN modelToProvider

ProviderFor(model) == modelToProvider[model]

\* orchestration.Models()
Models == DOMAIN modelToProvider

(***************************************************************************)
(* Tool registry: the toolboxes registered by the init functions.          *)
(***************************************************************************)
CoreToolbox == {"list_tools", "get_model_version", "control_state"}

registry ==
    [core |-> CoreToolbox, execution |-> {"bash"}, filesystem |-> {"read_file"}]

GetAllTools == UNION {registry[tb] : tb \in DOMAIN registry}

GetCoreTools == UNION {registry[tb] : tb \in {t \in DOMAIN registry : t = "core"}}

GetToolByName(name) == name \in GetAllTools

(***************************************************************************)
(* Text is kept as a sequence of segments; joining with "\n" is            *)
(* concatenation and the empty string is the empty sequence.               *)
(***************************************************************************)
Text(s) == <<[kind |-> "text", text |-> s, items |-> <<>>]>>

\* providers.ChatMessage
ChatMessage(role, content) == [Role |-> role, Content |-> content]

\* providers.NewToolResult: the ID is left empty for the caller to set.
NewToolResult(toolName, content, isError) ==
    [ID |-> "", Content |-> content, IsError |-> isError, nil |-> FALSE]

\* A nil *ToolResult, as an executor would return together with an error.
NilToolResult == [ID |-> "", Content |-> "", IsError |-> FALSE, nil |-> TRUE]

(***************************************************************************)
(* What a provider may answer.  An input is the raw JSON of a tool call:   *)
(* json = FALSE stands for bytes that are not valid JSON.                  *)
(***************************************************************************)
Input(json, action, value, script) ==
    [json |-> json, action |-> action, value |-> value, script |-> script]

ToolUse(id, name, input) == [ID |-> id, Name |-> name, Input |-> input]

CallMenu ==
    { ToolUse("t1", "control_state", Input(TRUE, "toggle_tools", "on", "")),
      ToolUse("t2", "control_state", Input(TRUE, "switch_model", "anthropic", "")),
      ToolUse("t1", "bash", Input(TRUE, "", "", "ls")),
      ToolUse("t2", "bash", Input(FALSE, "", "", "")),
      ToolUse("t3", "no_such_tool", Input(TRUE, "", "", "")) }

RECURSIVE SeqsUpTo(_, _)
SeqsUpTo(S, n) ==
    IF n = 0 THEN {<<>>}
    ELSE LET shorter == SeqsUpTo(S, n - 1)
         IN  shorter \cup {Append(q, x) : q \in {r \in shorter : Len(r) = n - 1}, x \in S}

\* control_state calls on the two flags: value absent, on, off.
ToggleMenu ==
    { ToolUse("t1", "control_state", Input(TRUE, "toggle_tools", "", "")),
      ToolUse("t2", "control_state", Input(TRUE, "toggle_tools", "off", "")),
      ToolUse("t3", "control_state", Input(TRUE, "toggle_speech", "", "")),
      ToolUse("t4", "control_state", Input(TRUE, "toggle_speech", "on", "")),
      ToolUse("t5", "control_state", Input(TRUE, "toggle_speech", "off", "")) }

\* control_state switch_model: a registered model, the alias of a registered
\* provider, the alias of a provider without key, an unknown value, no value.
SwitchMenu ==
    { ToolUse("t1", "control_state", Input(TRUE, "switch_model", "M2", "")),
      ToolUse("t2", "control_state", Input(TRUE, "switch_model", "anthropic", "")),
      ToolUse("t3", "control_state", Input(TRUE, "switch_model", "gemini", "")),
      ToolUse("t4", "control_state", Input(TRUE, "switch_model", "nope", "")),
      ToolUse("t5", "control_state", Input(TRUE, "switch_model", "", "")) }

ChatCallLists == SeqsUpTo(CallMenu, MaxCalls)

ToggleCallLists == SeqsUpTo(ToggleMenu, MaxCalls)

SwitchCallLists == SeqsUpTo(SwitchMenu, MaxCalls)

ToolCallLists(m) ==
    CASE m = "chat" -> ChatCallLists
      [] m = "toggle" -> ToggleCallLists
      [] m = "switch" -> SwitchCallLists

AssistantReplies == {<<>>, <<ChatMessage("assistant", Text("hi"))>>}

UserTexts == {"hello", "exit", "help"}

\* json.Unmarshal(call.Input, &inputMap) with the error ignored: bytes that
\* are not JSON leave the map nil, which every executor decodes to zero values.
ParseInput(input) ==
    IF input.json THEN input ELSE Input(FALSE, "", "", "")

(***************************************************************************)
(* State.                                                                  *)
(*   conversation  InputModel.conversation; each pair also remembers the   *)
(*                 submission that created it (turn, 0 for a /tools entry) *)
(*                 and the worker whose response was last written into it  *)
(*                 (respTurn, 0 for none): history fields, never read by   *)
(*                 the program.                                            *)
(*   provider      InputModel.provider                                     *)
(*   quitting      InputModel.quitting                                     *)
(*   toolsEnabled  globalConfig.Tools.Enabled                              *)
(*   toolsOutput   globalConfig.Tools.Output                               *)
(*   currentModel  the atomic.Value of state.go ("" while unset)           *)
(*   nextTurn      number of inputs submitted so far                       *)
(*   issued        number of tool calls the providers have asked for so    *)
(*                 far (bounded by MaxCalls)                               *)
(*   switchedTo    history: the model of the last successful switch_model  *)
(*                 call, "" if there was none or the user has chosen a     *)
(*                 model in the /model screen since                        *)
(*   worker        the command goroutine of each submitted input; its      *)
(*                 field after is history too: switchedTo when the input   *)
(*                 was submitted, and so is flips: between the load and    *)
(*                 the store of its ToggleTools, whether an odd number of  *)
(*                 other ToggleTools invocations has completed meanwhile   *)
(*   menu          which tool calls the provider of this session asks for  *)
(*                 (fixed by the initial state)                            *)
(*   speechEnabled the atomic.Bool of state.go                             *)
(*   speechMode    InputModel.speechMode                                   *)
(*   ctrlCPressed, ctrlCTime, showExitPrompt   the InputModel fields       *)
(*   now           the wall clock, in seconds                              *)
(*   timers        the due times of the pending timeoutCmd ticks           *)
(***************************************************************************)
VARIABLES conversation, provider, quitting, toolsEnabled, toolsOutput,
          currentModel, nextTurn, issued, switchedTo, worker,
          menu, speechEnabled, speechMode,
          ctrlCPressed, ctrlCTime, showExitPrompt, now, timers,
          bashRun, readRun, boot, wire, toolboxes,
          section, inputModel, historyManager, modelSelect, audioBuffer

uiVars == <<section, inputModel, historyManager, modelSelect, audioBuffer>>

toolVars == <<bashRun, readRun, boot, wire, toolboxes>>

\* What the session does not change while it runs: the provider's menu and
\* the components that are exercised on their own.

envVars == <<menu, toolVars, uiVars>>

speechVars == <<speechEnabled, speechMode>>

keyVars == <<ctrlCPressed, ctrlCTime, showExitPrompt, now, timers>>

vars == <<conversation, provider, quitting, toolsEnabled, toolsOutput,
          currentModel, nextTurn, issued, switchedTo, worker,
          envVars, speechVars, keyVars>>

\* The variables of the chat session, which a component exercised on its
\* own leaves alone.
sessionVars == <<conversation, provider, quitting, toolsEnabled, toolsOutput,
                 currentModel, nextTurn, issued, switchedTo, worker,
                 menu, speechVars, keyVars>>

Turns == 1..MaxTurns

IdleWorker ==
    [pc |-> "idle", userMessage |-> "", provider |-> "", adapter |-> "",
     messages |-> <<>>, offered |-> {},
     toolCalls |-> <<>>, results |-> <<>>, used |-> <<>>,
     i |-> 0, current |-> FALSE, loaded |-> FALSE, orphan |-> FALSE,
     after |-> "", flips |-> FALSE,
     msg |-> [response |-> <<>>, isError |-> FALSE]]

\* A worker is in flight from the Enter that starts it until its
\* aiResponseMsg has been handled by Update (or can no longer be).
InFlight(w) == worker[w].pc \notin {"idle", "delivered", "dropped"}

\* AddConversationPair
AddConversationPair(conv, userMsg, aiResponse, turn) ==
    Append(conv, [UserMessage |-> userMsg, AIResponse |-> aiResponse,
                  IsProcessing |-> (aiResponse = <<>>),
                  turn |-> turn, respTurn |-> 0])

\* SetAIResponse: always the most recent pair.
SetAIResponse(conv, aiResponse, from) ==
    IF Len(conv) > 0
    THEN [conv EXCEPT ![Len(conv)].AIResponse = aiResponse,
                      ![Len(conv)].IsProcessing = FALSE,
                      ![Len(conv)].respTurn = from]
    ELSE conv

\* ToggleTools / GetToolsEnabled on the shared config (globalConfig is set
\* before the input loop starts).
ToggleTools(enabled) == ~enabled

\* Another ToggleTools invocation has completed: the workers inside their
\* own ToggleTools (other than w) take note.
NoteToggle(wk, w) ==
    [v \in Turns |-> IF v # w /\ wk[v].pc = "cs_store"
                     THEN [wk[v] EXCEPT !.flips = ~@]
                     ELSE wk[v]]

\* Variant: tools off means no tools at all, the core toolbox included.
ProviderToolsGated(enabled) == IF enabled THEN GetAllTools ELSE {}

\* The tool list processMessageAsync offers to the provider.
ProviderTools(enabled) == IF enabled THEN GetAllTools ELSE GetCoreTools

\* The messages processMessageAsync builds for Chat.
BuildMessages(userMessage) ==
    <<ChatMessage("system", Text(SystemPrompt)), ChatMessage("user", Text(userMessage))>>

\* aiResponseMsg
AiResponseMsg(response, isError) == [response |-> response, isError |-> isError]

\* A displayed text keeps its segments; the entries of a summary or of the
\* tool outputs are not followed once the text is in the conversation.
Shown(text) == [k \in DOMAIN text |-> [text[k] EXCEPT !.items = <<>>]]

\* Variant: Update records the text of every aiResponseMsg as it is.
RecordedResponsePlain(msg) == Shown(msg.response)

\* What Update records for an aiResponseMsg.
RecordedResponse(msg) ==
    IF msg.isError THEN Text("Error: ") \o Shown(msg.response) ELSE Shown(msg.response)

\* NewInputModel and the zero values of the package state; the provider of
\* the session asks for the tool calls of menu m.
InitSession(m) ==
    /\ conversation = <<>>
    /\ provider = DefaultModel
    /\ quitting = FALSE
    /\ toolsEnabled \in BOOLEAN
    /\ toolsOutput \in BOOLEAN
    /\ currentModel = ""
    /\ nextTurn = 0
    /\ issued = 0
    /\ switchedTo = ""
    /\ worker = [w \in Turns |-> IdleWorker]
    /\ menu = m
    /\ speechEnabled = FALSE
    /\ speechMode = FALSE
    /\ ctrlCPressed = FALSE
    /\ ctrlCTime = 0
    /\ showExitPrompt = FALSE
    /\ now = 0
    /\ timers = {}

\* The components exercised on their own, before they are used.
IdleBash == [pc |-> "idle"]

IdleRead == [pc |-> "idle"]

IdleBoot == [pc |-> "idle"]

IdleWire == [pc |-> "idle"]

IdleToolboxes == [pc |-> "idle"]

\* A component that is not exercised.
Idle == [pc |-> "idle"]

UiIdle ==
    /\ section = Idle
    /\ inputModel = Idle
    /\ historyManager = Idle
    /\ modelSelect = Idle
    /\ audioBuffer = Idle

ToolsIdle ==
    /\ bashRun = IdleBash
    /\ readRun = IdleRead
    /\ boot = IdleBoot
    /\ wire = IdleWire
    /\ toolboxes = IdleToolboxes

InitWith(m) ==
    /\ InitSession(m)
    /\ bashRun = IdleBash
    /\ readRun = IdleRead
    /\ boot = IdleBoot
    /\ wire = IdleWire
    /\ toolboxes = IdleToolboxes
    /\ UiIdle

Init == InitWith("chat")

\* Update, key handling: every key other than ctrl+c resets the Ctrl+C state.
ResetCtrlC ==
    /\ ctrlCPressed' = FALSE
    /\ showExitPrompt' = FALSE
    /\ UNCHANGED <<ctrlCTime, now, timers>>

\* The same reset when the key ends the program (tea.Quit for "help", /help
\* or /model): the ticks the old program scheduled are never delivered.
RestartCtrlC ==
    /\ ctrlCPressed' = FALSE
    /\ showExitPrompt' = FALSE
    /\ timers' = {}
    /\ UNCHANGED <<ctrlCTime, now>>

\* The program of the input loop ends (tea.Quit for /help or /model) and a
\* new one is started with the same model: the commands of the old program
\* keep running but their messages are no longer delivered.
RestartProgram(wk) ==
    [w \in Turns |-> IF wk[w].pc \in {"idle", "delivered"} THEN wk[w]
                     ELSE IF wk[w].pc \in {"returned", "dropped"}
                     THEN [IdleWorker EXCEPT !.pc = "dropped", !.orphan = TRUE]
                     ELSE [wk[w] EXCEPT !.orphan = TRUE]]

(***************************************************************************)
(* InputModel.Update, key "enter" outside the slash menu.                  *)
(***************************************************************************)
Enter(text) ==
    /\ ~quitting
    /\ IF text = "exit"
       THEN /\ quitting' = TRUE
            /\ UNCHANGED <<conversation, nextTurn, worker>>
       ELSE IF text = "help"
       THEN /\ worker' = RestartProgram(worker)
            /\ UNCHANGED <<conversation, nextTurn, quitting>>
       ELSE /\ nextTurn < MaxTurns
            /\ Len(conversation) < MaxPairs
            /\ conversation' = AddConversationPair(conversation, text, <<>>, nextTurn + 1)
            /\ nextTurn' = nextTurn + 1
            /\ worker' = [worker EXCEPT ![nextTurn + 1] =
                             [IdleWorker EXCEPT !.pc = "start",
                                                !.userMessage = text,
                                                !.provider = provider,
                                                !.after = switchedTo]]
            /\ UNCHANGED quitting
    /\ UNCHANGED <<provider, toolsEnabled, toolsOutput, currentModel, issued, switchedTo>>
    /\ IF text = "help" THEN RestartCtrlC ELSE ResetCtrlC
    /\ UNCHANGED <<envVars, speechVars>>

\* Update, case aiResponseMsg.
UpdateAiResponse(w) ==
    /\ ~quitting
    /\ worker[w].pc = "returned"
    /\ ~worker[w].orphan
    /\ conversation' = SetAIResponse(conversation, RecordedResponse(worker[w].msg), w)
    /\ worker' = [worker EXCEPT ![w] = [IdleWorker EXCEPT !.pc = "delivered"]]
    /\ UNCHANGED <<provider, quitting, toolsEnabled, toolsOutput, currentModel, nextTurn, issued, switchedTo>>
    /\ UNCHANGED <<envVars, speechVars, keyVars>>

\* Update, slash menu, "/tools".
SlashTools ==
    /\ ~quitting
    /\ Len(conversation) < MaxPairs
    /\ toolsEnabled' = ToggleTools(toolsEnabled)
    /\ conversation' = AddConversationPair(conversation, "/tools",
                          IF toolsEnabled' THEN Text("System: Tools enabled")
                                           ELSE Text("System: Tools disabled"), 0)
    /\ worker' = NoteToggle(worker, 0)
    /\ UNCHANGED <<provider, quitting, toolsOutput, currentModel, nextTurn, issued, switchedTo>>
    /\ ResetCtrlC
    /\ UNCHANGED <<envVars, speechVars>>

\* Update, slash menu, "/speech": the model's own field is negated and the
\* package flag is set to it.
SlashSpeech ==
    /\ ~quitting
    /\ speechMode' = ~speechMode
    /\ speechEnabled' = speechMode'
    /\ ResetCtrlC
    /\ UNCHANGED <<conversation, provider, quitting, toolsEnabled, toolsOutput,
                   currentModel, nextTurn, issued, switchedTo, worker, envVars>>

\* Update, slash menu, "/help", and the help screen of startChatInput.
SlashHelp ==
    /\ ~quitting
    /\ worker' = RestartProgram(worker)
    /\ UNCHANGED <<conversation, provider, quitting, toolsEnabled, toolsOutput,
                   currentModel, nextTurn, issued, switchedTo>>
    /\ RestartCtrlC
    /\ UNCHANGED <<envVars, speechVars>>

\* Update, slash menu, "/model", and the model screen of startChatInput:
\* selected is the chosen model, "" when the screen is left with esc.
SlashModel(selected) ==
    /\ ~quitting
    /\ worker' = RestartProgram(worker)
    /\ provider' = IF selected # "" THEN selected ELSE provider
    /\ switchedTo' = IF selected # "" THEN "" ELSE switchedTo
    /\ UNCHANGED <<conversation, quitting, toolsEnabled, toolsOutput, currentModel, nextTurn, issued>>
    /\ RestartCtrlC
    /\ UNCHANGED <<envVars, speechVars>>

\* Update, "ctrl+c": a press while ctrlCPressed is set and at most 2 seconds
\* after ctrlCTime quits; any other press clears the input, arms the exit
\* prompt, stamps ctrlCTime and schedules timeoutCmd, a tick 2 seconds later.
CtrlC ==
    /\ ~quitting
    /\ IF ctrlCPressed /\ now - ctrlCTime <= 2
       THEN /\ quitting' = TRUE
            /\ UNCHANGED keyVars
       ELSE /\ ctrlCPressed' = TRUE
            /\ ctrlCTime' = now
            /\ showExitPrompt' = TRUE
            /\ timers' = timers \cup {now + 2}
            /\ UNCHANGED <<now, quitting>>
    /\ UNCHANGED <<conversation, provider, toolsEnabled, toolsOutput, currentModel,
                   nextTurn, issued, switchedTo, worker, envVars, speechVars>>

\* Update, timeoutMsg: the tick scheduled for second d is delivered and
\* resets the Ctrl+C state, whichever press scheduled it.
TimeoutMsg(d) ==
    /\ ~quitting
    /\ d \in timers
    /\ d <= now
    /\ ctrlCPressed' = FALSE
    /\ showExitPrompt' = FALSE
    /\ timers' = timers \ {d}
    /\ UNCHANGED <<ctrlCTime, now>>
    /\ UNCHANGED <<conversation, provider, quitting, toolsEnabled, toolsOutput, currentModel,
                   nextTurn, issued, switchedTo, worker, envVars, speechVars>>

\* A second of wall-clock time passes; a tick that is due is delivered
\* before the clock moves on.
Tick ==
    /\ now < MaxTime
    /\ \A d \in timers : d > now
    /\ now' = now + 1
    /\ UNCHANGED <<ctrlCPressed, ctrlCTime, showExitPrompt, timers>>
    /\ UNCHANGED <<conversation, provider, quitting, toolsEnabled, toolsOutput, currentModel,
                   nextTurn, issued, switchedTo, worker, envVars, speechVars>>

\* Update, default key branch: a character is typed into the input.
OtherKey ==
    /\ ~quitting
    /\ ResetCtrlC
    /\ UNCHANGED <<conversation, provider, quitting, toolsEnabled, toolsOutput, currentModel,
                   nextTurn, issued, switchedTo, worker, envVars, speechVars>>

\* Update, slash menu, "/exit".
SlashExit ==
    /\ ~quitting
    /\ quitting' = TRUE
    /\ UNCHANGED <<conversation, provider, toolsEnabled, toolsOutput, currentModel,
                   nextTurn, issued, switchedTo, worker>>
    /\ ResetCtrlC
    /\ UNCHANGED <<envVars, speechVars>>

(***************************************************************************)
(* processMessageAsync, the command goroutine of one submitted input.  It  *)
(* is not stopped by tea.Quit: it runs on until the process ends, which is *)
(* any point after quitting at which it takes no further step.             *)
(***************************************************************************)
\* The goroutine returns its aiResponseMsg and its locals are gone.  The
\* message of a command whose program has ended is dropped.
Return(w, response, isError) ==
    [worker EXCEPT ![w] =
        IF worker[w].orphan
        THEN [IdleWorker EXCEPT !.pc = "dropped", !.orphan = TRUE]
        ELSE [IdleWorker EXCEPT !.pc = "returned",
                                !.msg = AiResponseMsg(response, isError)]]

\* The strings.Builder loop at the end: the non-empty contents, joined.
RECURSIVE CombineMessages(_)
CombineMessages(msgs) ==
    IF msgs = <<>> THEN <<>>
    ELSE Head(msgs).Content \o CombineMessages(Tail(msgs))

\* ProviderFor(provider), the tool list (one read of Tools.Enabled) and the
\* message list.
WorkerStart(w) ==
    /\ worker[w].pc = "start"
    /\ IF ~ProviderForOk(worker[w].provider)
       THEN worker' = Return(w, Text("Error getting provider: ") \o Text(worker[w].provider), TRUE)
       ELSE worker' = [worker EXCEPT ![w].pc = "chat",
                                     ![w].adapter = ProviderFor(worker[w].provider),
                                     ![w].messages = BuildMessages(worker[w].userMessage),
                                     ![w].offered = ProviderTools(toolsEnabled)]
    /\ UNCHANGED <<conversation, provider, quitting, toolsEnabled, toolsOutput,
                   currentModel, nextTurn, issued, switchedTo>>
    /\ UNCHANGED <<envVars, speechVars, keyVars>>

\* context.Background(), the context of every provider call and executor:
\* it is never cancelled.
Background == [cancellable |-> FALSE]

\* ctx.Done() has fired: only a cancellable context observes the exit.
CtxDone(ctx, quit) == ctx.cancellable /\ quit

\* SetCurrentModel(provider) and p.Chat: the provider fails, or answers with
\* assistant messages and tool calls.
WorkerChat(w) ==
    /\ worker[w].pc = "chat"
    /\ currentModel' = worker[w].provider
    /\ \E failed \in (IF CtxDone(Background, quitting) THEN {TRUE} ELSE BOOLEAN),
          msgs \in AssistantReplies, calls \in ToolCallLists(menu) :
          /\ issued + Len(calls) <= MaxCalls
          /\ issued' = issued + Len(calls)
          /\ IF failed
             THEN /\ msgs = <<>> /\ calls = <<>>
                  /\ worker' = Return(w, Text("Chat error: ") \o Text("E"), TRUE)
             ELSE IF Len(calls) > 0
             THEN worker' = [worker EXCEPT ![w].pc = "tools", ![w].i = 1,
                                           ![w].toolCalls = calls]
             ELSE worker' = Return(w, CombineMessages(msgs), FALSE)
    /\ UNCHANGED <<conversation, provider, quitting, toolsEnabled, toolsOutput, nextTurn,
                   switchedTo>>
    /\ UNCHANGED <<envVars, speechVars, keyVars>>

(***************************************************************************)
(* The tool executors.                                                     *)
(***************************************************************************)
stateStr(b) == IF b THEN "on" ELSE "off"

\* control_state: enable := desired is one of on, enable, true, 1.
Enable(value) == value \in {"on", "enable", "true", "1"}

\* Variant: switch_model accepts registered model ids only.
SwitchTargetExact(target) == IF ProviderForOk(target) THEN target ELSE ""

\* control_state, switch_model: the model the call switches to, "" when the
\* value names neither a registered model nor a configured provider.
SwitchTarget(target) ==
    IF ProviderForOk(target) THEN target
    ELSE IF target \in DOMAIN ConfigProviders /\ Len(ConfigProviders[target]) > 0
    THEN ConfigProviders[target][1]
    ELSE ""

\* Variant: bash reports a failed command as (nil, err) instead of a
\* ToolResult with IsError set.
ExecutorResultsNil(name, in, model) ==
    IF name = "bash"
    THEN IF in.script = "" THEN {NilToolResult}
         ELSE {NewToolResult("bash", "output", FALSE), NilToolResult}
    ELSE {NewToolResult(name, "result", FALSE)}

\* The results an executor that touches no shared flag may return.
ExecutorResults(name, in, model) ==
    CASE name = "bash" ->
           IF in.script = ""
           THEN {NewToolResult("bash", "script parameter cannot be empty", TRUE)}
           ELSE {NewToolResult("bash", "output", FALSE),
                 NewToolResult("bash", "Command exited with status 1", TRUE)}
      [] name = "read_file" ->
           {NewToolResult("read_file", "content", FALSE),
            NewToolResult("read_file", "Error accessing file", TRUE)}
      [] name = "list_tools" -> {NewToolResult("list_tools", "tools", FALSE)}
      [] name = "get_model_version" ->
           {NewToolResult("get_model_version",
                          IF model = "" THEN "unknown" ELSE model, FALSE)}
      [] name = "control_state" ->
           IF in.action = "switch_model"
           THEN IF in.value = ""
                THEN {NewToolResult("control_state", "value must specify model or provider", TRUE)}
                ELSE IF SwitchTarget(in.value) = ""
                THEN {NewToolResult("control_state", "unknown provider or no models", TRUE)}
                ELSE {NewToolResult("control_state", "Switched to model", FALSE)}
           ELSE {NewToolResult("control_state", "unknown action", TRUE)}

\* Variant: a call whose execution failed is left out of the summary line.
FinishCallUnlisted(wk, w, res) ==
    LET call == wk[w].toolCalls[wk[w].i]
        in == ParseInput(call.Input)
    IN  IF res.nil
        THEN [wk EXCEPT ![w].pc = "crashed"]
        ELSE [wk EXCEPT ![w].results = Append(@, [res EXCEPT !.ID = call.ID]),
                        ![w].used = IF res.IsError THEN @
                                    ELSE Append(@, [name |-> call.Name, preview |-> in.json]),
                        ![w].i = @ + 1,
                        ![w].current = FALSE,
                        ![w].loaded = FALSE,
                        ![w].flips = FALSE,
                        ![w].pc = IF wk[w].i = Len(wk[w].toolCalls) THEN "send" ELSE "tools"]

\* The end of one iteration of the tool loop: res.ID = call.ID, the result
\* and the display name are appended.  A nil result panics.
FinishCall(wk, w, res) ==
    LET call == wk[w].toolCalls[wk[w].i]
        in == ParseInput(call.Input)
    IN  IF res.nil
        THEN [wk EXCEPT ![w].pc = "crashed"]
        ELSE [wk EXCEPT ![w].results = Append(@, [res EXCEPT !.ID = call.ID]),
                        ![w].used = Append(@, [name |-> call.Name, preview |-> in.json]),
                        ![w].i = @ + 1,
                        ![w].current = FALSE,
                        ![w].loaded = FALSE,
                        ![w].flips = FALSE,
                        ![w].pc = IF wk[w].i = Len(wk[w].toolCalls) THEN "send" ELSE "tools"]

\* Variant: the loop skips a tool that is not registered without a result.
ToolNotFoundSkip(wk, w) ==
    [wk EXCEPT ![w].i = @ + 1,
               ![w].pc = IF wk[w].i = Len(wk[w].toolCalls) THEN "send" ELSE "tools"]

\* The `continue` of the loop for a tool that is not registered.
ToolNotFound(wk, w) ==
    LET call == wk[w].toolCalls[wk[w].i]
    IN  [wk EXCEPT ![w].results = Append(@, [ID |-> call.ID, Content |-> "tool not found",
                                             IsError |-> TRUE, nil |-> FALSE]),
                   ![w].i = @ + 1,
                   ![w].pc = IF wk[w].i = Len(wk[w].toolCalls) THEN "send" ELSE "tools"]

\* One iteration of the tool loop, up to the executor's first access to
\* globalConfig.Tools.Enabled.
WorkerTool(w) ==
    /\ worker[w].pc = "tools"
    /\ LET call == worker[w].toolCalls[worker[w].i]
           in == ParseInput(call.Input)
       IN  IF ~GetToolByName(call.Name)
           THEN /\ worker' = ToolNotFound(worker, w)
                /\ UNCHANGED <<currentModel, switchedTo, speechVars>>
           ELSE IF call.Name = "control_state" /\ in.action = "toggle_tools"
           THEN /\ IF toolsEnabled = Enable(in.value)
                   THEN worker' = FinishCall(worker, w,
                           NewToolResult("control_state",
                               IF toolsEnabled THEN "Tools already on" ELSE "Tools already off",
                               FALSE))
                   ELSE worker' = [worker EXCEPT ![w].pc = "cs_load",
                                                 ![w].current = toolsEnabled]
                /\ UNCHANGED <<currentModel, switchedTo, speechVars>>
           ELSE IF call.Name = "control_state" /\ in.action = "toggle_speech"
           THEN /\ speechEnabled' = Enable(in.value)
                /\ worker' = FinishCall(worker, w,
                       NewToolResult("control_state",
                           IF speechEnabled = Enable(in.value)
                           THEN "Speech-to-text already " \o stateStr(speechEnabled)
                           ELSE "Speech-to-text turned " \o stateStr(Enable(in.value)),
                           FALSE))
                /\ UNCHANGED <<currentModel, switchedTo, speechMode>>
           ELSE /\ UNCHANGED speechVars
                /\ \E res \in ExecutorResults(call.Name, in, currentModel) :
                      worker' = FinishCall(worker, w, res)
                /\ IF call.Name = "control_state" /\ in.action = "switch_model"
                      /\ in.value # "" /\ SwitchTarget(in.value) # ""
                   THEN /\ currentModel' = SwitchTarget(in.value)
                        /\ switchedTo' = SwitchTarget(in.value)
                   ELSE UNCHANGED <<currentModel, switchedTo>>
    /\ UNCHANGED <<conversation, provider, quitting, toolsEnabled, toolsOutput, nextTurn, issued>>
    /\ UNCHANGED <<envVars, keyVars>>

\* control_state -> ToggleTools: the load of Tools.Enabled ...
WorkerToggleLoad(w) ==
    /\ worker[w].pc = "cs_load"
    /\ worker' = [worker EXCEPT ![w].pc = "cs_store", ![w].loaded = toolsEnabled]
    /\ UNCHANGED <<conversation, provider, quitting, toolsEnabled, toolsOutput,
                   currentModel, nextTurn, issued, switchedTo>>
    /\ UNCHANGED <<envVars, speechVars, keyVars>>

\* ... and the store of its negation; the call reports "Tools turned <enable>".
WorkerToggleStore(w) ==
    /\ worker[w].pc = "cs_store"
    /\ toolsEnabled' = ToggleTools(worker[w].loaded)
    /\ worker' = NoteToggle(FinishCall(worker, w,
                    NewToolResult("control_state",
                        IF ~worker[w].current THEN "Tools turned on" ELSE "Tools turned off",
                        FALSE)), w)
    /\ UNCHANGED <<conversation, provider, quitting, toolsOutput, currentModel, nextTurn, issued, switchedTo>>
    /\ UNCHANGED <<envVars, speechVars, keyVars>>

\* The consolidated message: the summary line and, when tool output is
\* shown, the tool outputs.
ToolContent(used, results, showOutput) ==
    <<[kind |-> "summary", text |-> "[Used tools: %s]", items |-> used]>>
    \o (IF showOutput
        THEN <<[kind |-> "outputs", text |-> "", items |-> results]>>
        ELSE <<>>)

SendReplies == {<<>>, <<ChatMessage("assistant", Text("done"))>>}

\* The tool calls a follow-up response may carry: none, or a further call.
FollowUpCalls == {<<>>, <<ToolUse("t9", "bash", Input(TRUE, "", "", "ls"))>>}

\* Variant: the tool calls of the follow-up response are executed as a
\* further batch.
AfterSendNested(w, msgs, more) ==
    IF more # <<>>
    THEN [worker EXCEPT ![w].pc = "tools", ![w].i = 1, ![w].toolCalls = more,
                        ![w].results = <<>>]
    ELSE Return(w, CombineMessages(msgs), FALSE)

\* `assistantMsgs, _, err = p.SendToolResult(...)`: the tool calls of the
\* follow-up response are discarded and the turn returns its text.
AfterSend(w, msgs, more) ==
    LET all == <<ChatMessage("assistant",
                    ToolContent(worker[w].used, worker[w].results, toolsOutput))>>
               \o msgs
    IN  Return(w, CombineMessages(all), FALSE)

\* p.SendToolResult and the rest of the turn.
WorkerSend(w) ==
    /\ worker[w].pc = "send"
    /\ \E failed \in (IF CtxDone(Background, quitting) THEN {TRUE} ELSE BOOLEAN),
          msgs \in SendReplies, more \in FollowUpCalls :
          IF failed
          THEN /\ msgs = <<>> /\ more = <<>>
               /\ worker' = Return(w, Text("Tool result error: ") \o Text("E"), TRUE)
          ELSE worker' = AfterSend(w, msgs, more)
    /\ UNCHANGED <<conversation, provider, quitting, toolsEnabled, toolsOutput,
                   currentModel, nextTurn, issued, switchedTo>>
    /\ UNCHANGED <<envVars, speechVars, keyVars>>

Next ==
    \/ \E text \in UserTexts : Enter(text)
    \/ \E w \in Turns : UpdateAiResponse(w)
    \/ SlashTools
    \/ SlashHelp
    \/ \E selected \in Models \cup {""} : SlashModel(selected)
    \/ SlashExit
    \/ \E w \in Turns : WorkerStart(w)
    \/ \E w \in Turns : WorkerChat(w)
    \/ \E w \in Turns : WorkerTool(w)
    \/ \E w \in Turns : WorkerToggleLoad(w)
    \/ \E w \in Turns : WorkerToggleStore(w)
    \/ \E w \in Turns : WorkerSend(w)

Spec == Init /\ [][Next]_vars

(***************************************************************************)
(* The session up to the response of its first input: the same program     *)
(* with a user who submits one input and meanwhile uses the slash menu.    *)
(***************************************************************************)
EnterFirst(text) == nextTurn = 0 /\ Enter(text)

NextFirstTurn ==
    \/ \E text \in UserTexts : EnterFirst(text)
    \/ \E w \in Turns : UpdateAiResponse(w)
    \/ SlashTools
    \/ SlashHelp
    \/ \E selected \in Models \cup {""} : SlashModel(selected)
    \/ SlashExit
    \/ \E w \in Turns : WorkerStart(w)
    \/ \E w \in Turns : WorkerChat(w)
    \/ \E w \in Turns : WorkerTool(w)
    \/ \E w \in Turns : WorkerToggleLoad(w)
    \/ \E w \in Turns : WorkerToggleStore(w)
    \/ \E w \in Turns : WorkerSend(w)

SpecFirstTurn == Init /\ [][NextFirstTurn]_vars

\* The same session when every goroutine is scheduled, every provider call
\* and executor returns, and the input loop handles the messages it is sent.
Fairness ==
    \A w \in Turns :
        /\ WF_vars(WorkerStart(w))
        /\ WF_vars(WorkerChat(w))
        /\ WF_vars(WorkerTool(w))
        /\ WF_vars(WorkerToggleLoad(w))
        /\ WF_vars(WorkerToggleStore(w))
        /\ WF_vars(WorkerSend(w))
        /\ WF_vars(UpdateAiResponse(w))

SpecFirstTurnFair == SpecFirstTurn /\ Fairness

(***************************************************************************)
(* The session of a user who submits an input only when no earlier input   *)
(* is still waiting for its response.                                      *)
(***************************************************************************)
EnterPatient(text) == (\A w \in Turns : ~InFlight(w)) /\ Enter(text)

NextPatientUser ==
    \/ \E text \in UserTexts : EnterPatient(text)
    \/ \E w \in Turns : UpdateAiResponse(w)
    \/ SlashTools
    \/ SlashHelp
    \/ \E selected \in Models \cup {""} : SlashModel(selected)
    \/ SlashExit
    \/ \E w \in Turns : WorkerStart(w)
    \/ \E w \in Turns : WorkerChat(w)
    \/ \E w \in Turns : WorkerTool(w)
    \/ \E w \in Turns : WorkerToggleLoad(w)
    \/ \E w \in Turns : WorkerToggleStore(w)
    \/ \E w \in Turns : WorkerSend(w)

SpecPatientUser == Init /\ [][NextPatientUser]_vars

(***************************************************************************)
(* A session whose provider asks for control_state toggles, with a user    *)
(* who submits one input and uses /tools and /speech.                      *)
(***************************************************************************)
InitToggle == InitWith("toggle")

NextToggle ==
    \/ \E text \in UserTexts : EnterFirst(text)
    \/ \E w \in Turns : UpdateAiResponse(w)
    \/ SlashTools
    \/ SlashSpeech
    \/ \E w \in Turns : WorkerStart(w)
    \/ \E w \in Turns : WorkerChat(w)
    \/ \E w \in Turns : WorkerTool(w)
    \/ \E w \in Turns : WorkerToggleLoad(w)
    \/ \E w \in Turns : WorkerToggleStore(w)
    \/ \E w \in Turns : WorkerSend(w)

SpecToggle == InitToggle /\ [][NextToggle]_vars

(***************************************************************************)
(* A session whose provider asks for control_state switch_model, with a    *)
(* user who submits one input and uses the /model screen.                  *)
(***************************************************************************)
InitSwitch == InitWith("switch")

NextSwitch ==
    \/ \E text \in UserTexts : EnterFirst(text)
    \/ \E w \in Turns : UpdateAiResponse(w)
    \/ \E selected \in Models \cup {""} : SlashModel(selected)
    \/ \E w \in Turns : WorkerStart(w)
    \/ \E w \in Turns : WorkerChat(w)
    \/ \E w \in Turns : WorkerTool(w)
    \/ \E w \in Turns : WorkerSend(w)

SpecSwitch == InitSwitch /\ [][NextSwitch]_vars

\* The keyboard alone within one program of the input loop: Ctrl+C presses,
\* typed characters, the 2-second ticks and the passing of time.
NextCtrlC ==
    \/ CtrlC
    \/ OtherKey
    \/ Tick
    \/ \E d \in 0..(MaxTime + 2) : TimeoutMsg(d)

SpecCtrlC == Init /\ [][NextCtrlC]_vars

(***************************************************************************)
(* The bash tool (internal/tools/exec/bash/bash.go).  A script is the      *)
(* sequence of its characters; "backquote" stands for the character that   *)
(* opens a command substitution.                                           *)
(***************************************************************************)
Uppers == <<"A", "B", "C", "D", "E", "F", "G", "H", "I", "J", "K", "L", "M",
            "N", "O", "P", "Q", "R", "S", "T", "U", "V", "W", "X", "Y", "Z">>

Lowers == <<"a", "b", "c", "d", "e", "f", "g", "h", "i", "j", "k", "l", "m",
            "n", "o", "p", "q", "r", "s", "t", "u", "v", "w", "x", "y", "z">>

\* strings.ToLower
ToLower(s) ==
    [i \in DOMAIN s |->
        IF \E k \in DOMAIN Uppers : Uppers[k] = s[i]
        THEN Lowers[CHOOSE k \in DOMAIN Uppers : Uppers[k] = s[i]]
        ELSE s[i]]

\* strings.Contains
Contains(s, substr) ==
    \E i \in 1..(Len(s) - Len(substr) + 1) :
        SubSeq(s, i, i + Len(substr) - 1) = substr

\* strings.TrimSpace(s) == ""
TrimSpaceEmpty(s) == \A i \in DOMAIN s : s[i] \in {" ", "\t", "\n", "\r"}

dangerousCommands ==
    << <<"r", "m", " ", "-", "r", "f">>, <<"r", "m", " ", "-", "r">>,
       <<"r", "m", "d", "i", "r">>, <<"m", "k", "f", "s">>, <<"d", "d">>,
       <<"s", "h", "r", "e", "d">>, <<"t", "r", "u", "n", "c", "a", "t", "e">>,
       <<"s", "h", "u", "t", "d", "o", "w", "n">>, <<"r", "e", "b", "o", "o", "t">>,
       <<"h", "a", "l", "t">>, <<"p", "o", "w", "e", "r", "o", "f", "f">>,
       <<"i", "p", "t", "a", "b", "l", "e", "s">>,
       <<"i", "p", "6", "t", "a", "b", "l", "e", "s">>, <<"u", "f", "w">>,
       <<"p", "a", "s", "s", "w", "d">>, <<"u", "s", "e", "r", "a", "d", "d">>,
       <<"u", "s", "e", "r", "d", "e", "l">>,
       <<"g", "r", "o", "u", "p", "a", "d", "d">>,
       <<"g", "r", "o", "u", "p", "d", "e", "l">>,
       <<"s", "u", "d", "o">>, <<"s", "u">>, <<"d", "o", "a", "s">>,
       <<">", " ", "/", "d", "e", "v", "/", "n", "u", "l", "l">>,
       <<">", "/", "d", "e", "v", "/", "n", "u", "l", "l">>,
       <<">", " ", "/", "d", "e", "v", "/">>, <<">", "/", "d", "e", "v", "/">>,
       <<">", " ", "/", "p", "r", "o", "c", "/">>, <<">", "/", "p", "r", "o", "c", "/">>,
       <<">", " ", "/", "s", "y", "s", "/">>, <<">", "/", "s", "y", "s", "/">>,
       <<"|">>, <<"|", "|">>, <<"&", "&">>, <<";">>, <<"$", "(">>, <<"backquote">> >>

\* run: timeout := 30, replaced by a request that is above 0 and below 300.
DefaultTimeout == 30

TimeoutCap == 300

EffectiveTimeout(requested) ==
    IF requested > 0 /\ requested < TimeoutCap THEN requested ELSE DefaultTimeout

\* run: commandLine := strings.ToLower(in.Script)
CommandLineRaw(script) == script

CommandLine(script) == ToLower(script)

\* run: the first entry of dangerousCommands that commandLine contains, 0
\* when there is none.
Dangerous(script) ==
    LET hits == {k \in DOMAIN dangerousCommands :
                    Contains(CommandLine(script), dangerousCommands[k])}
    IN  IF hits = {} THEN 0 ELSE CHOOSE k \in hits : \A j \in hits : k <= j

\* The characters scripts are made of, and the timeouts that are requested
\* (0 when the input has no timeout).
ScriptChars == {"l", "S", "u", ";", " "}

Timeouts == {-1, 0, 1, 299, 300, 600}

BashCall(script, timeout) ==
    [pc |-> "called", script |-> script, timeout |-> timeout,
     shell |-> FALSE, execTimeout |-> 0, result |-> NilToolResult]

\* run up to cmd.CombinedOutput(): the input is validated, the timeout is
\* chosen, the script is checked against dangerousCommands, and only then
\* is bash started under the timeout context.
BashStart ==
    /\ bashRun.pc = "called"
    /\ IF TrimSpaceEmpty(bashRun.script)
       THEN bashRun' = [bashRun EXCEPT !.pc = "returned",
                           !.result = NewToolResult("bash", "script parameter cannot be empty", TRUE)]
       ELSE IF Dangerous(bashRun.script) # 0
       THEN bashRun' = [bashRun EXCEPT !.pc = "returned",
                           !.result = NewToolResult("bash", "Command rejected for security reasons", TRUE)]
       ELSE bashRun' = [bashRun EXCEPT !.pc = "running", !.shell = TRUE,
                           !.execTimeout = EffectiveTimeout(bashRun.timeout)]
    /\ UNCHANGED <<sessionVars, readRun, boot, wire, toolboxes, uiVars>>

\* run from cmd.CombinedOutput() on: the deadline passes, the command exits
\* with a status, cannot be started, or succeeds.
BashFinish ==
    /\ bashRun.pc = "running"
    /\ \E res \in {NewToolResult("bash", "Command execution timed out", TRUE),
                    NewToolResult("bash", "Command exited with status 1", TRUE),
                    NewToolResult("bash", "Execution failed", TRUE),
                    NewToolResult("bash", "output", FALSE)} :
           bashRun' = [bashRun EXCEPT !.pc = "returned", !.result = res]
    /\ UNCHANGED <<sessionVars, readRun, boot, wire, toolboxes, uiVars>>

InitBash ==
    /\ InitSession("chat") /\ toolsEnabled /\ toolsOutput
    /\ bashRun \in {BashCall(script, timeout) :
                        script \in SeqsUpTo(ScriptChars, MaxScript), timeout \in Timeouts}
    /\ readRun = IdleRead
    /\ boot = IdleBoot
    /\ wire = IdleWire
    /\ toolboxes = IdleToolboxes
    /\ UiIdle

NextBash == BashStart \/ BashFinish

SpecBash == InitBash /\ [][NextBash]_vars

(***************************************************************************)
(* The read_file tool (internal/tools/filesystem/read_file/read_file.go).  *)
(* A path is the sequence of its segments and a flag for a leading "/".    *)
(* The working directory W holds the file a, the directory d with a file   *)
(* a, and l, a symbolic link to the directory O outside of W, which also   *)
(* holds a file a.                                                         *)
(***************************************************************************)
PathSegs == {"a", "A", "d", "l", ".."}

Dirs == {"W", "W/d", "O"}

\* The entry called name of directory dir, with a symbolic link followed;
\* "none" when there is no such entry.
Child(dir, name) ==
    CASE dir = "W" /\ name = "a" -> "W/a"
      [] dir = "W" /\ name = "d" -> "W/d"
      [] dir = "W" /\ name = "l" -> "O"
      [] dir = "W/d" /\ name = "a" -> "W/d/a"
      [] dir = "O" /\ name = "a" -> "O/a"
      [] OTHER -> "none"

\* os.ReadDir: the names of the entries of a directory.
DirNames(dir) == {n \in {"a", "d", "l"} : Child(dir, n) # "none"}

\* What the operating system finds at a path followed from node: a node,
\* "none" (no such entry) or "notdir" (a file used as a directory).
RECURSIVE Resolve(_, _)
Resolve(node, segs) ==
    IF segs = <<>> THEN node
    ELSE IF node \notin Dirs THEN "notdir"
    ELSE IF Child(node, Head(segs)) = "none" THEN "none"
    ELSE Resolve(Child(node, Head(segs)), Tail(segs))

\* filepath.Clean on the segments of a relative path: "x/.." is removed,
\* leading ".." segments stay; <<>> stands for ".".
RECURSIVE CleanFrom(_, _)
CleanFrom(stack, rest) ==
    IF rest = <<>> THEN stack
    ELSE IF Head(rest) = ".." /\ stack # <<>> /\ stack[Len(stack)] # ".."
    THEN CleanFrom(SubSeq(stack, 1, Len(stack) - 1), Tail(rest))
    ELSE CleanFrom(Append(stack, Head(rest)), Tail(rest))

Clean(segs) == CleanFrom(<<>>, segs)

\* filepath.IsLocal: not absolute, not empty, and the cleaned path neither
\* is ".." nor starts with "../".
IsLocal(abs, segs) ==
    /\ ~abs
    /\ segs # <<>>
    /\ (Clean(segs) = <<>> \/ Head(Clean(segs)) # "..")

\* strings.EqualFold on entry names.
Fold(name) == IF name = "A" THEN "a" ELSE name

EqualFold(s, t) == Fold(s) = Fold(t)

ReadCall(abs, segs) ==
    [pc |-> "called", abs |-> abs, segs |-> segs, opened |-> "none",
     result |-> NilToolResult]

ReadError(content) ==
    [readRun EXCEPT !.pc = "returned", !.result = NewToolResult("read_file", content, TRUE)]

\* run after the path checks: path is the cleaned path, possibly replaced
\* by its case-insensitive match; the file is opened by os.ReadFile only.
ReadPath(path) ==
    LET st == Resolve("W", path)
    IN  IF st \in {"none", "notdir"}
        THEN readRun' = ReadError("Error accessing file")
        ELSE IF st \in Dirs
        THEN readRun' = ReadError("Path points to a directory, not a file")
        ELSE \/ readRun' = ReadError("File size exceeds maximum allowed size")
             \/ readRun' = [ReadError("Error reading file") EXCEPT !.opened = st]
             \/ readRun' = [ReadError("File contains invalid UTF-8 sequences")
                                EXCEPT !.opened = st]
             \/ readRun' = [readRun EXCEPT !.pc = "returned", !.opened = st,
                                !.result = NewToolResult("read_file", "content", FALSE)]

\* run
ReadFileRun ==
    /\ readRun.pc = "called"
    /\ IF ~readRun.abs /\ readRun.segs = <<>>
       THEN readRun' = ReadError("Path parameter is required")
       ELSE IF ~IsLocal(readRun.abs, readRun.segs)
       THEN readRun' = ReadError("Path must be local for security reasons")
       ELSE LET path == Clean(readRun.segs)
            IN  IF Resolve("W", path) = "none"
                THEN LET dir == SubSeq(path, 1, Len(path) - 1)
                         base == path[Len(path)]
                         dirNode == Resolve("W", dir)
                         found == IF dirNode \in Dirs
                                  THEN {e \in DirNames(dirNode) : EqualFold(e, base)}
                                  ELSE {}
                     IN  IF dirNode \notin Dirs
                         THEN readRun' = ReadError("Directory not found or not accessible")
                         ELSE IF found = {}
                         THEN readRun' = ReadError("File not found")
                         ELSE \E e \in found : ReadPath(Append(dir, e))
                ELSE ReadPath(path)
    /\ UNCHANGED <<sessionVars, bashRun, boot, wire, toolboxes, uiVars>>

InitRead ==
    /\ InitSession("chat") /\ toolsEnabled /\ toolsOutput
    /\ readRun \in {ReadCall(abs, segs) :
                        abs \in BOOLEAN, segs \in SeqsUpTo(PathSegs, MaxPath)}
    /\ bashRun = IdleBash
    /\ boot = IdleBoot
    /\ wire = IdleWire
    /\ toolboxes = IdleToolboxes
    /\ UiIdle

NextRead == ReadFileRun

SpecRead == InitRead /\ [][NextRead]_vars

(***************************************************************************)
(* Startup: LoadConfig and ValidateConfig (internal/config/config.go), the *)
(* provider registry (package orchestration: Init, build, ProviderFor,     *)
(* FirstModel, Models) and StartUI (internal/terminal/ui.go).              *)
(* modelToProvider is kept in boot.map as a set of <<model, provider>>     *)
(* pairs with at most one pair per model.                                  *)
(***************************************************************************)
ProviderKeys == {"openai", "anthropic", "gemini", "mistral", "alibaba", "other"}

\* build: the provider keys it looks up, in its order.
BuildOrder == <<"openai", "anthropic", "gemini", "mistral", "alibaba">>

\* build: the literal each key is compared with.
Placeholder(p) ==
    CASE p = "openai" -> "${OPENAI_API_KEY}"
      [] p = "anthropic" -> "${ANTHROPIC_API_KEY}"
      [] p = "gemini" -> "${GEMINI_API_KEY}"
      [] p = "mistral" -> "${MISTRAL_API_KEY}"
      [] p = "alibaba" -> "${ALIBABA_API_KEY}"
      [] OTHER -> "${}"

\* config.Provider; present is FALSE for a key the file does not have.
ProviderCfg(models, key) == [present |-> TRUE, Models |-> models, Key |-> key]

NoProvider == [present |-> FALSE, Models |-> <<>>, Key |-> ""]

\* config.Config
Config(name, defaultModel, openai, gemini, other) ==
    [Name |-> name, DefaultModel |-> defaultModel,
     Providers |-> [p \in ProviderKeys |->
                       CASE p = "openai" -> openai
                         [] p = "gemini" -> gemini
                         [] p = "other" -> other
                         [] OTHER -> NoProvider]]

Configured(cfg) == {p \in ProviderKeys : cfg.Providers[p].present}

ModelsOf(cfg, p) == {cfg.Providers[p].Models[i] : i \in DOMAIN cfg.Providers[p].Models}

\* LoadConfig: os.ExpandEnv on a key; env is the set of providers whose
\* environment variable is set.
ExpandEnv(key, env) ==
    IF \E p \in ProviderKeys : key = Placeholder(p)
    THEN IF \E p \in env : key = Placeholder(p) THEN "sk-env" ELSE ""
    ELSE key

LoadConfig(file, env) ==
    [file EXCEPT !.Providers =
        [p \in ProviderKeys |->
            [file.Providers[p] EXCEPT !.Key = ExpandEnv(file.Providers[p].Key, env)]]]

\* Config.ValidateConfig: TRUE when it returns nil.  The default model is
\* looked up in the model lists of the configuration.
ValidateConfig(c) ==
    /\ c.Name # ""
    /\ Configured(c) # {}
    /\ \A p \in Configured(c) : Len(c.Providers[p].Models) > 0
    /\ c.DefaultModel # "" => \E p \in Configured(c) : c.DefaultModel \in ModelsOf(c, p)

\* modelToProvider[m] = client
PutModel(map, m, p) == {e \in map : e[1] # m} \cup {<<m, p>>}

RECURSIVE PutModels(_, _, _)
PutModels(map, models, p) ==
    IF models = <<>> THEN map
    ELSE PutModels(PutModel(map, Head(models), p), Tail(models), p)

\* build: the key test of one provider block.
KeySetAny(cfg, p) == TRUE

KeySet(cfg, p) == cfg.Providers[p].Key # "" /\ cfg.Providers[p].Key # Placeholder(p)

\* The constructors that can return an error: gemini.New.
NewCanFail(p) == p = "gemini"

\* build: one provider block.  r holds modelToProvider and initErrors;
\* newFails says that the constructor of the client returned an error.
BuildProvider(r, cfg, p, newFails) ==
    IF ~cfg.Providers[p].present THEN r
    ELSE IF ~KeySet(cfg, p) \/ (NewCanFail(p) /\ newFails)
    THEN [r EXCEPT !.initErrors = @ \cup {p}]
    ELSE [r EXCEPT !.map = PutModels(@, cfg.Providers[p].Models, p)]

\* orchestration.Models, ProviderFor (ok), FirstModel (the names are M
\* followed by one digit, so sorting them is sorting the digits).
RegModels(map) == {e[1] : e \in map}

RegProviderForOk(map, model) == model \in RegModels(map)

ModelRank(m) ==
    CASE m = "M1" -> 1 [] m = "M2" -> 2 [] m = "M3" -> 3 [] m = "M5" -> 5
      [] m = "M7" -> 7 [] m = "M9" -> 9 [] OTHER -> 0

FirstModel(map) ==
    CHOOSE m \in RegModels(map) : \A n \in RegModels(map) : ModelRank(m) <= ModelRank(n)

\* ModelsByProvider: for a configured provider, its models that are keys
\* of modelToProvider; the result has the providers with one at least.
AvailableModels(cfg, map, p) ==
    SelectSeq(cfg.Providers[p].Models, LAMBDA m : m \in RegModels(map))

ModelsByProvider(cfg, map) ==
    [p \in {q \in Configured(cfg) : AvailableModels(cfg, map, q) # <<>>} |->
        AvailableModels(cfg, map, p)]

\* GetInitializedProviders: the status of every configured provider.
GetInitializedProviders(cfg, map) ==
    [p \in Configured(cfg) |->
        \E i \in DOMAIN cfg.Providers[p].Models : cfg.Providers[p].Models[i] \in RegModels(map)]

\* The callers of orchestration.Init: StartUI, GetAvailableModels (the
\* model list) and getActualProviderStatus (the help screen).
Callers == {"StartUI", "GetAvailableModels", "getActualProviderStatus"}

\* A caller that is not running, and one about to load the file.
CallerOff ==
    [pc |-> "off", file |-> Config("", "", NoProvider, NoProvider, NoProvider),
     cfg |-> Config("", "", NoProvider, NoProvider, NoProvider),
     i |-> 0, initErrors |-> {}, waited |-> FALSE, ret |-> "none", seen |-> {},
     defaultModel |-> ""]

CallerAt(file) == [CallerOff EXCEPT !.pc = "load", !.file = file, !.cfg = file]

\* cfg.LoadConfig in StartUI, GetAvailableModels and the help screen.
CallLoadConfig(c) ==
    /\ boot.pc = "run"
    /\ boot.callers[c].pc = "load"
    /\ boot' = [boot EXCEPT
                    !.callers[c].cfg = LoadConfig(boot.callers[c].file, boot.env),
                    !.callers[c].pc = IF c = "StartUI" THEN "validate" ELSE "init"]
    /\ UNCHANGED <<sessionVars, bashRun, readRun, wire, toolboxes, uiVars>>

\* StartUI: conf.ValidateConfig(); an error ends StartUI.
StartUIValidate ==
    /\ boot.pc = "run"
    /\ boot.callers["StartUI"].pc = "validate"
    /\ boot' = [boot EXCEPT !.callers["StartUI"].pc =
                    IF ValidateConfig(boot.callers["StartUI"].cfg) THEN "init" ELSE "failed"]
    /\ UNCHANGED <<sessionVars, bashRun, readRun, wire, toolboxes, uiVars>>

\* sync.Once as Init finds it: "new", "running" (the function of another
\* caller has not returned yet) or "done".
OnceNone(b) == "new"

OnceState(b) == b.once

\* Init, registryInitOnce.Do: the first caller runs build, a caller that
\* arrives during the build waits for it, a later caller returns
\* registryInitError at once.
InitEnter(c) ==
    /\ boot.pc = "run"
    /\ boot.callers[c].pc = "init"
    /\ boot' =
          CASE OnceState(boot) = "done" ->
                 [boot EXCEPT !.callers[c].pc = "after",
                              !.callers[c].ret = IF boot.registryInitError THEN "err" ELSE "ok"]
            [] OnceState(boot) = "running" ->
                 [boot EXCEPT !.callers[c].pc = "wait", !.callers[c].waited = TRUE]
            [] OTHER ->
                 [boot EXCEPT !.once = "running", !.builds = @ + 1,
                              !.callers[c].pc = "build", !.callers[c].i = 1]
    /\ UNCHANGED <<sessionVars, bashRun, readRun, wire, toolboxes, uiVars>>

\* build: the block of provider BuildOrder[i].
BuildStep(c) ==
    /\ boot.pc = "run"
    /\ boot.callers[c].pc = "build"
    /\ boot.callers[c].i <= Len(BuildOrder)
    /\ \E newFails \in BOOLEAN :
          LET p == BuildOrder[boot.callers[c].i]
              cfg == boot.callers[c].cfg
              r == BuildProvider([map |-> boot.map, initErrors |-> boot.callers[c].initErrors],
                                 cfg, p, newFails)
          IN  /\ newFails => (NewCanFail(p) /\ cfg.Providers[p].present /\ KeySet(cfg, p))
              /\ boot' = [boot EXCEPT !.map = r.map,
                                      !.callers[c].initErrors = r.initErrors,
                                      !.callers[c].i = @ + 1]
    /\ UNCHANGED <<sessionVars, bashRun, readRun, wire, toolboxes, uiVars>>

\* build from "if len(modelToProvider) == 0" on, and the return of Init:
\* the error message or the warning lists the providers of initErrors.
BuildDone(c) ==
    /\ boot.pc = "run"
    /\ boot.callers[c].pc = "build"
    /\ boot.callers[c].i > Len(BuildOrder)
    /\ boot' = [boot EXCEPT !.registryInitError = (boot.map = {}),
                            !.skipped = boot.callers[c].initErrors,
                            !.once = "done",
                            !.callers[c].ret = IF boot.map = {} THEN "err" ELSE "ok",
                            !.callers[c].pc = "after"]
    /\ UNCHANGED <<sessionVars, bashRun, readRun, wire, toolboxes, uiVars>>

\* Init, for a caller that waited in registryInitOnce.Do.
InitWait(c) ==
    /\ boot.pc = "run"
    /\ boot.callers[c].pc = "wait"
    /\ boot.once = "done"
    /\ boot' = [boot EXCEPT !.callers[c].pc = "after",
                            !.callers[c].ret = IF boot.registryInitError THEN "err" ELSE "ok"]
    /\ UNCHANGED <<sessionVars, bashRun, readRun, wire, toolboxes, uiVars>>

\* StartUI after Init: an error ends it; otherwise the default model is the
\* configured one when ProviderFor knows it and FirstModel() when not, and
\* startChatInput is called.
StartUIChoose ==
    /\ boot.pc = "run"
    /\ boot.callers["StartUI"].pc = "after"
    /\ LET me == boot.callers["StartUI"]
       IN  IF me.ret = "err" \/ boot.map = {}
           THEN boot' = [boot EXCEPT !.callers["StartUI"].pc = "failed"]
           ELSE boot' = [boot EXCEPT !.callers["StartUI"].pc = "started",
                            !.callers["StartUI"].defaultModel =
                                IF me.cfg.DefaultModel # ""
                                   /\ RegProviderForOk(boot.map, me.cfg.DefaultModel)
                                THEN me.cfg.DefaultModel
                                ELSE FirstModel(boot.map)]
    /\ UNCHANGED <<sessionVars, bashRun, readRun, wire, toolboxes, uiVars>>

\* GetAvailableModels and getActualProviderStatus after Init: the read of
\* modelToProvider in orchestration.Models() or GetInitializedProviders().
ReadModels(c) ==
    /\ boot.pc = "run"
    /\ c # "StartUI"
    /\ boot.callers[c].pc = "after"
    /\ boot' = [boot EXCEPT !.callers[c].seen = RegModels(boot.map),
                            !.callers[c].pc = "done"]
    /\ UNCHANGED <<sessionVars, bashRun, readRun, wire, toolboxes, uiVars>>

\* The process before StartUI: the registry is empty and Init has not run.
BootWith(env, callers) ==
    [pc |-> "run", once |-> "new", builds |-> 0, map |-> {}, registryInitError |-> FALSE,
     skipped |-> {}, env |-> env, callers |-> callers]

\* The configuration files StartUI is started with.
OpenaiCfgs ==
    {NoProvider} \cup {ProviderCfg(ms, k) : ms \in {<<>>, <<"M1">>},
                                            k \in {"", "sk", Placeholder("openai")}}

GeminiCfgs ==
    {NoProvider} \cup {ProviderCfg(ms, k) : ms \in {<<"M3", "M5">>, <<"M1">>},
                                            k \in {"", "sk", Placeholder("gemini")}}

OtherCfgs == {NoProvider, ProviderCfg(<<"M9">>, "sk")}

ConfigFiles ==
    {Config(n, d, o, g, x) : n \in {"", "magikarp"}, d \in {"", "M1", "M5", "M7"},
                             o \in OpenaiCfgs, g \in GeminiCfgs, x \in OtherCfgs}

InitStartup ==
    /\ InitSession("chat") /\ toolsEnabled /\ toolsOutput
    /\ bashRun = IdleBash
    /\ readRun = IdleRead
    /\ wire = IdleWire
    /\ toolboxes = IdleToolboxes
    /\ UiIdle
    /\ boot \in {BootWith(env, [c \in Callers |->
                                   IF c = "StartUI" THEN CallerAt(f) ELSE CallerOff]) :
                     env \in SUBSET {"openai", "gemini"}, f \in ConfigFiles}

NextStartup ==
    \/ CallLoadConfig("StartUI")
    \/ StartUIValidate
    \/ InitEnter("StartUI")
    \/ BuildStep("StartUI")
    \/ BuildDone("StartUI")
    \/ StartUIChoose

SpecStartup == InitStartup /\ [][NextStartup]_vars

\* Init called by all three callers, in any interleaving, each with the
\* configuration it loaded: one with a key for openai only, one with keys
\* for gemini only, one without any key.
InitFiles ==
    { Config("magikarp", "", ProviderCfg(<<"M1">>, "sk"), NoProvider, NoProvider),
      Config("magikarp", "", ProviderCfg(<<"M1">>, ""),
             ProviderCfg(<<"M3", "M5">>, "sk"), NoProvider),
      Config("magikarp", "", ProviderCfg(<<"M1">>, Placeholder("openai")),
             NoProvider, NoProvider) }

InitInit ==
    /\ InitSession("chat") /\ toolsEnabled /\ toolsOutput
    /\ bashRun = IdleBash
    /\ readRun = IdleRead
    /\ wire = IdleWire
    /\ toolboxes = IdleToolboxes
    /\ UiIdle
    /\ boot \in {BootWith({}, [c \in Callers |-> CallerAt(f[c])]) :
                     f \in [Callers -> InitFiles]}

NextInit ==
    \/ \E c \in Callers : CallLoadConfig(c)
    \/ StartUIValidate
    \/ \E c \in Callers : InitEnter(c)
    \/ \E c \in Callers : BuildStep(c)
    \/ \E c \in Callers : BuildDone(c)
    \/ \E c \in Callers : InitWait(c)
    \/ StartUIChoose
    \/ \E c \in Callers : ReadModels(c)

SpecInit == InitInit /\ [][NextInit]_vars

(***************************************************************************)
(* The provider adapters (internal/providers): what Chat puts into the     *)
(* request of its backend and what it makes of the reply.  A request is    *)
(* the system prompt passed outside of the message array ("" when none is  *)
(* passed) and the message array.                                          *)
(***************************************************************************)
Adapters == {"anthropic", "openai", "gemini", "mistral", "alibaba"}

\* The role a conversation message is sent with: tool results are carried
\* as user messages, and Gemini calls the assistant "model".
CarriedRolePlain(adapter, role) == role

CarriedRole(adapter, role) ==
    IF role = "tool" THEN "user"
    ELSE IF adapter = "gemini" /\ role = "assistant" THEN "model"
    ELSE role

\* The loop over the conversation: the messages that are appended to the
\* message array; inArray says whether system messages are appended too.
RECURSIVE Converted(_, _, _)
Converted(adapter, msgs, inArray) ==
    IF msgs = <<>> THEN <<>>
    ELSE IF Head(msgs).Role = "system" /\ ~inArray
    THEN Converted(adapter, Tail(msgs), inArray)
    ELSE <<ChatMessage(CarriedRole(adapter, Head(msgs).Role), Head(msgs).Content)>>
             \o Converted(adapter, Tail(msgs), inArray)

\* The same loop: systemPrompt as it is left by the system messages; an
\* adapter that skips empty contents keeps the earlier value for them.
RECURSIVE CapturedPrompt(_, _, _)
CapturedPrompt(prompt, msgs, skipEmpty) ==
    IF msgs = <<>> THEN prompt
    ELSE IF Head(msgs).Role = "system" /\ ~(skipEmpty /\ Head(msgs).Content = "")
    THEN CapturedPrompt(Head(msgs).Content, Tail(msgs), skipEmpty)
    ELSE CapturedPrompt(prompt, Tail(msgs), skipEmpty)

HasSystemMessage(msgs) == \E i \in DOMAIN msgs : msgs[i].Role = "system"

\* AnthropicClient.Chat: system messages are skipped and systemPrompt stays
\* empty, so no System block is sent.
RequestAnthropic(msgs) ==
    [system |-> "", messages |-> Converted("anthropic", msgs, FALSE)]

\* OpenAIClient.Chat and AlibabaClient.Chat: the system prompt is the
\* configured one unless a system message replaces it, and is sent as the
\* first message of the array.
RequestOpenAI(adapter, msgs, configured) ==
    LET systemPrompt == CapturedPrompt(configured, msgs, TRUE)
    IN  [system |-> "",
         messages |-> (IF systemPrompt # "" THEN <<ChatMessage("system", systemPrompt)>>
                       ELSE <<>>) \o Converted(adapter, msgs, FALSE)]

\* MistralClient.Chat: system messages stay in the array; the configured
\* prompt is put first when the conversation has no system message.
RequestMistral(msgs, configured) ==
    [system |-> "",
     messages |-> (IF configured # "" /\ ~HasSystemMessage(msgs)
                   THEN <<ChatMessage("system", configured)>> ELSE <<>>)
                  \o Converted("mistral", msgs, TRUE)]

\* GeminiClient.Chat: the system message becomes model.SystemInstruction,
\* the other messages the history and the message that is sent.
RequestGemini(msgs) ==
    [system |-> CapturedPrompt("", msgs, FALSE),
     messages |-> Converted("gemini", msgs, FALSE)]

Request(adapter, msgs, configured) ==
    CASE adapter = "anthropic" -> RequestAnthropic(msgs)
      [] adapter = "gemini" -> RequestGemini(msgs)
      [] adapter = "mistral" -> RequestMistral(msgs, configured)
      [] OTHER -> RequestOpenAI(adapter, msgs, configured)

\* What a backend replies: text and tool calls, each call with the id the
\* backend gave it (for Gemini a call is a text part that holds the JSON of
\* a function call, which has no id).
BackendText == [kind |-> "text", id |-> "", name |-> ""]

BackendCall(id, name) == [kind |-> "call", id |-> id, name |-> name]

BackendReplies ==
    { <<BackendText>>,
      <<BackendCall("c1", "bash")>>,
      <<BackendCall("c1", "bash"), BackendCall("c2", "bash")>>,
      <<BackendText, BackendCall("c1", "bash"), BackendCall("c2", "read_file")>> }

\* Chat, "Convert response to our format": the tool calls of the reply.
RECURSIVE ToolUses(_, _)
ToolUses(adapter, reply) ==
    IF reply = <<>> THEN <<>>
    ELSE IF Head(reply).kind # "call" \/ adapter = "mistral"
    THEN ToolUses(adapter, Tail(reply))
    ELSE <<[ID |-> IF adapter = "gemini" THEN "" ELSE Head(reply).id,
            Name |-> Head(reply).name]>> \o ToolUses(adapter, Tail(reply))

\* The conversations Chat is called with: the system prompt (or none), the
\* user message, and the assistant, tool and user messages after it.
LaterMessages ==
    { ChatMessage("assistant", "a1"), ChatMessage("tool", "r1"),
      ChatMessage("tool", "r2"), ChatMessage("user", "u2") }

Conversations ==
    { sys \o <<ChatMessage("user", "u1")>> \o rest :
          sys \in {<<>>, <<ChatMessage("system", "SYS")>>},
          rest \in SeqsUpTo(LaterMessages, MaxMsgs) }

WireCall(adapter, configured, msgs) ==
    [pc |-> "called", adapter |-> adapter, systemPrompt |-> configured, messages |-> msgs,
     request |-> [system |-> "", messages |-> <<>>], toolUses |-> <<>>]

\* Chat up to the call of the backend.
WireSend ==
    /\ wire.pc = "called"
    /\ wire' = [wire EXCEPT !.pc = "sent",
                            !.request = Request(wire.adapter, wire.messages, wire.systemPrompt)]
    /\ UNCHANGED <<sessionVars, bashRun, readRun, boot, toolboxes, uiVars>>

\* Chat from the reply of the backend on.
WireReceive ==
    /\ wire.pc = "sent"
    /\ \E reply \in BackendReplies :
          wire' = [wire EXCEPT !.pc = "returned", !.toolUses = ToolUses(wire.adapter, reply)]
    /\ UNCHANGED <<sessionVars, bashRun, readRun, boot, toolboxes, uiVars>>

InitWire ==
    /\ InitSession("chat") /\ toolsEnabled /\ toolsOutput
    /\ bashRun = IdleBash
    /\ readRun = IdleRead
    /\ boot = IdleBoot
    /\ toolboxes = IdleToolboxes
    /\ UiIdle
    /\ wire \in {WireCall(a, c, msgs) :
                     a \in Adapters, c \in {"", "CFG"}, msgs \in Conversations}

NextWire == WireSend \/ WireReceive

SpecWire == InitWire /\ [][NextWire]_vars

(***************************************************************************)
(* Registration of tools (internal/tools/toolbox.go): the package variable *)
(* registry as the init functions of the toolbox packages fill it.  tb is  *)
(* the toolbox that is being put together, registry the toolboxes that     *)
(* were registered, in order.                                              *)
(***************************************************************************)
ToolboxNames == {"execution", "filesystem"}

DefinitionNames == {"bash", "read_file", "list_tools"}

NoToolbox == [name |-> "", tools |-> <<>>]

RECURSIVE ToolCount(_)
ToolCount(boxes) ==
    IF boxes = <<>> THEN 0 ELSE Len(Head(boxes).tools) + ToolCount(Tail(boxes))

NewBaseToolbox(name) ==
    /\ toolboxes.pc = "run"
    /\ toolboxes.tb = NoToolbox
    /\ toolboxes' = [toolboxes EXCEPT !.tb = [name |-> name, tools |-> <<>>]]
    /\ UNCHANGED <<sessionVars, bashRun, readRun, boot, wire, uiVars>>

\* BaseToolbox.AddTool
AddTool(name) ==
    /\ toolboxes.pc = "run"
    /\ toolboxes.tb # NoToolbox
    /\ ToolCount(toolboxes.registry) + Len(toolboxes.tb.tools) < MaxTools
    /\ toolboxes' = [toolboxes EXCEPT !.tb.tools = Append(@, [Name |-> name])]
    /\ UNCHANGED <<sessionVars, bashRun, readRun, boot, wire, uiVars>>

\* Register
Register ==
    /\ toolboxes.pc = "run"
    /\ toolboxes.tb # NoToolbox
    /\ Len(toolboxes.registry) < MaxBoxes
    /\ toolboxes' = [toolboxes EXCEPT !.registry = Append(@, toolboxes.tb),
                                      !.tb = NoToolbox]
    /\ UNCHANGED <<sessionVars, bashRun, readRun, boot, wire, uiVars>>

\* The loops of GetToolByName over the registry of the state: the places
\* <<toolbox, tool>> that hold the name; the first of them is returned.
Places(boxes) ==
    UNION {{<<i, j>> : j \in DOMAIN boxes[i].tools} : i \in DOMAIN boxes}

Found(boxes, name) == {p \in Places(boxes) : boxes[p[1]].tools[p[2]].Name = name}

InitRegistry ==
    /\ InitSession("chat") /\ toolsEnabled /\ toolsOutput
    /\ bashRun = IdleBash
    /\ readRun = IdleRead
    /\ boot = IdleBoot
    /\ wire = IdleWire
    /\ toolboxes = [pc |-> "run", registry |-> <<>>, tb |-> NoToolbox]
    /\ UiIdle

NextRegistry ==
    \/ \E name \in ToolboxNames : NewBaseToolbox(name)
    \/ \E name \in DefinitionNames : AddTool(name)
    \/ Register

SpecRegistry == InitRegistry /\ [][NextRegistry]_vars

(***************************************************************************)
(* The tool-output section of the consolidated message (processMessage-    *)
(* Async, "if GetToolsOutputEnabled()").  A text is kept as its lines and  *)
(* a line as its length in characters and what it is: a line of output, or *)
(* one of the two markers.  The content of a result is trimmed text of     *)
(* lines lines, each of width characters.                                  *)
(***************************************************************************)
maxToolOutputLines == 40

maxToolOutputChars == 4000

LineCounts == {1, 2, 39, 41}

Widths == {0, 50, 120}

SectionResults ==
    SeqsUpTo([IsError : BOOLEAN, lines : LineCounts, width : Widths], MaxResults) \ {<<>>}

\* len("(tool error) ") and len("(tool result) "); continuation lines are
\* indented by fourteen blanks.
PrefixLen(r) == IF r.IsError THEN 13 ELSE 14

ResultLines(r) ==
    [i \in 1..r.lines |->
        [kind |-> "output", len |-> (IF i = 1 THEN PrefixLen(r) ELSE 14) + r.width]]

\* The loop over the results that fills toolOutputs.
RECURSIVE ToolOutputs(_)
ToolOutputs(results) ==
    IF results = <<>> THEN <<>>
    ELSE ResultLines(Head(results)) \o ToolOutputs(Tail(results))

Digits(n) == IF n < 10 THEN 1 ELSE IF n < 100 THEN 2 ELSE 3

\* fmt.Sprintf("... (%d more lines truncated)", n)
MoreLinesMarker(n) == [kind |-> "more lines truncated", len |-> 27 + Digits(n)]

\* "... (output truncated)"
OutputTruncatedMarker == [kind |-> "output truncated", len |-> 22]

\* if len(toolOutputs) > maxToolOutputLines
TrimLines(toolOutputs) ==
    IF Len(toolOutputs) > maxToolOutputLines
    THEN Append(SubSeq(toolOutputs, 1, maxToolOutputLines),
                MoreLinesMarker(Len(toolOutputs) - maxToolOutputLines))
    ELSE toolOutputs

\* len(strings.Join(lines, "\n"))
RECURSIVE JoinedLen(_)
JoinedLen(lines) ==
    IF lines = <<>> THEN 0
    ELSE Head(lines).len + (IF Len(lines) > 1 THEN 1 ELSE 0) + JoinedLen(Tail(lines))

\* combined[:n]: the lines of the first n characters of the joined text.
RECURSIVE Prefix(_, _)
Prefix(lines, n) ==
    IF lines = <<>> THEN <<>>
    ELSE IF Head(lines).len >= n \/ Len(lines) = 1
    THEN <<[Head(lines) EXCEPT !.len = IF @ > n THEN n ELSE @]>>
    ELSE <<Head(lines)>> \o Prefix(Tail(lines), n - Head(lines).len - 1)

\* if len(combined) > maxToolOutputChars
TrimChars(lines) ==
    IF JoinedLen(lines) > maxToolOutputChars
    THEN Append(Prefix(lines, maxToolOutputChars), OutputTruncatedMarker)
    ELSE lines

\* The loop over the results.
SectionCollect ==
    /\ section.pc = "results"
    /\ section' = [section EXCEPT !.pc = "collected",
                                  !.toolOutputs = ToolOutputs(section.results)]
    /\ UNCHANGED <<sessionVars, toolVars, inputModel, historyManager, modelSelect, audioBuffer>>

\* "Trim overly long outputs for better UI experience": the lines.
SectionTrimLines ==
    /\ section.pc = "collected"
    /\ section' = [section EXCEPT !.pc = "trimmed",
                                  !.toolOutputs = TrimLines(section.toolOutputs)]
    /\ UNCHANGED <<sessionVars, toolVars, inputModel, historyManager, modelSelect, audioBuffer>>

\* The join and the cut of the characters.
SectionTrimChars ==
    /\ section.pc = "trimmed"
    /\ section' = [section EXCEPT !.pc = "done",
                                  !.combined = TrimChars(section.toolOutputs)]
    /\ UNCHANGED <<sessionVars, toolVars, inputModel, historyManager, modelSelect, audioBuffer>>

InitSection ==
    /\ InitSession("chat") /\ toolsEnabled /\ toolsOutput
    /\ ToolsIdle
    /\ section \in {[pc |-> "results", results |-> rs, toolOutputs |-> <<>>,
                      combined |-> <<>>] : rs \in SectionResults}
    /\ inputModel = Idle
    /\ historyManager = Idle
    /\ modelSelect = Idle
    /\ audioBuffer = Idle

NextSection == SectionCollect \/ SectionTrimLines \/ SectionTrimChars

SpecSection == InitSection /\ [][NextSection]_vars

(***************************************************************************)
(* The input history (pkg/terminal/history.go).  A message and a line of   *)
(* the history file are sequences of characters; the file is its lines.    *)
(***************************************************************************)
maxHistorySize == 100

\* strings.TrimSpace
RECURSIVE TrimSpace(_)
TrimSpace(s) ==
    IF s = <<>> THEN <<>>
    ELSE IF Head(s) = " " THEN TrimSpace(Tail(s))
    ELSE IF s[Len(s)] = " " THEN TrimSpace(SubSeq(s, 1, Len(s) - 1))
    ELSE s

\* hm.history[len(hm.history)-maxHistorySize:]
LastEntries(history) ==
    IF Len(history) > maxHistorySize
    THEN SubSeq(history, Len(history) - maxHistorySize + 1, Len(history))
    ELSE history

\* The loop of AddMessage that removes the message: the first entry equal
\* to it is taken out, and the loop ends there.
RemoveFirst(history, message) ==
    IF \E i \in DOMAIN history : history[i] = message
    THEN LET i == CHOOSE k \in DOMAIN history :
                      /\ history[k] = message
                      /\ \A j \in 1..(k - 1) : history[j] # message
         IN  SubSeq(history, 1, i - 1) \o SubSeq(history, i + 1, Len(history))
    ELSE history

\* HistoryManager.AddMessage, the history it leaves.
AddMessage(history, raw) ==
    LET message == TrimSpace(raw)
    IN  IF message = <<>> THEN history
        ELSE LastEntries(Append(RemoveFirst(history, message), message))

\* The scanner loop of LoadFromFile and its cut to the last entries.
RECURSIVE ScanLines(_)
ScanLines(lines) ==
    IF lines = <<>> THEN <<>>
    ELSE (IF TrimSpace(Head(lines)) = <<>> THEN <<>> ELSE <<TrimSpace(Head(lines))>>)
         \o ScanLines(Tail(lines))

LoadFromFile(lines) == LastEntries(ScanLines(lines))

\* n lines that differ from each other.
Filler(n) == [i \in 1..n |-> [j \in 1..i |-> "f"]]

\* History files: none, files AddMessage has saved, and files with a line
\* in need of trimming, a blank line, a line twice, and 101 lines.
HistoryFiles ==
    { <<>>, <<<<"a">>>>, <<<<" ", "a">>, <<" ">>, <<"b">>>>, <<<<"a">>, <<"b">>, <<"a">>>>,
      Filler(99), Filler(100), Filler(101) }

HistoryMessages == SeqsUpTo({" ", "a", "b"}, 2)

\* NewHistoryManager: a missing file leaves the history empty.
HistoryNew ==
    /\ historyManager.pc = "new"
    /\ historyManager' =
          [historyManager EXCEPT !.pc = "ready",
                                 !.history = IF historyManager.exists
                                             THEN LoadFromFile(historyManager.file)
                                             ELSE <<>>]
    /\ UNCHANGED <<sessionVars, toolVars, section, inputModel, modelSelect, audioBuffer>>

\* AddMessage with SaveToFile, which may fail to create the file.
HistoryAdd(raw) ==
    /\ historyManager.pc = "ready"
    /\ historyManager.adds < MaxAdds
    /\ \E saved \in BOOLEAN :
          LET history == AddMessage(historyManager.history, raw)
              written == saved /\ TrimSpace(raw) # <<>>
          IN  historyManager' =
                  [historyManager EXCEPT !.history = history,
                                         !.adds = @ + 1,
                                         !.last = raw,
                                         !.exists = @ \/ written,
                                         !.file = IF written THEN history ELSE @]
    /\ UNCHANGED <<sessionVars, toolVars, section, inputModel, modelSelect, audioBuffer>>

InitHistory ==
    /\ InitSession("chat") /\ toolsEnabled /\ toolsOutput
    /\ ToolsIdle
    /\ section = Idle
    /\ inputModel = Idle
    /\ modelSelect = Idle
    /\ audioBuffer = Idle
    /\ historyManager \in
          {[pc |-> "new", exists |-> e, file |-> f, history |-> <<>>, adds |-> 0,
            last |-> <<>>] : e \in BOOLEAN, f \in HistoryFiles}

NextHistory == HistoryNew \/ \E raw \in HistoryMessages : HistoryAdd(raw)

SpecHistory == InitHistory /\ [][NextHistory]_vars

(***************************************************************************)
(* The input line (InputModel.Update on a key): the text, the slash        *)
(* command menu and the navigation of the input history.  value is         *)
(* textInput.Value(), a sequence of characters; the cursor of the text     *)
(* input stays at the end.  lastEnter is history: the text the input held  *)
(* when Enter last ran a slash command.                                    *)
(***************************************************************************)
GetAvailableCommands ==
    << [Name |-> <<"/", "e", "x", "i", "t">>,
        Description |-> <<"E", "x", "i", "t", " ", "M", "a", "g", "i", "k", "a", "r", "p">>],
       [Name |-> <<"/", "h", "e", "l", "p">>,
        Description |-> <<"S", "h", "o", "w", " ", "h", "e", "l", "p", " ", "i", "n", "f", "o", "r", "m", "a", "t", "i", "o", "n">>],
       [Name |-> <<"/", "m", "o", "d", "e", "l">>,
        Description |-> <<"S", "w", "i", "t", "c", "h", " ", "b", "e", "t", "w", "e", "e", "n", " ", "A", "I", " ", "m", "o", "d", "e", "l", "s">>],
       [Name |-> <<"/", "s", "p", "e", "e", "c", "h">>,
        Description |-> <<"T", "o", "g", "g", "l", "e", " ", "s", "p", "e", "e", "c", "h", " ", "m", "o", "d", "e", " ", "o", "n", "/", "o", "f", "f">>],
       [Name |-> <<"/", "t", "o", "o", "l", "s">>,
        Description |-> <<"T", "o", "g", "g", "l", "e", " ", "t", "o", "o", "l", "s", " ", "o", "n", "/", "o", "f", "f">>] >>

HasPrefixSlash(v) == v # <<>> /\ v[1] = "/"

\* strings.TrimPrefix(s, "/")
TrimPrefixSlash(v) == IF HasPrefixSlash(v) THEN Tail(v) ELSE v

FilterCommands(input) ==
    IF input = <<"/">> \/ input = <<>> THEN GetAvailableCommands
    ELSE LET filterText == ToLower(TrimPrefixSlash(input))
             Matches(cmd) ==
                 \/ Contains(ToLower(TrimPrefixSlash(cmd.Name)), filterText)
                 \/ Contains(ToLower(cmd.Description), filterText)
         IN  SelectSeq(GetAvailableCommands, Matches)

\* GetMessageAt with the index of the model, which counts from 0.
GetMessageAt(history, index) ==
    IF index < 0 \/ index >= Len(history) THEN <<>> ELSE history[index + 1]

exitHistoryMode(m) ==
    [m EXCEPT !.inHistoryMode = FALSE, !.historyIndex = -1, !.originalInput = <<>>]

navigateHistory(m, direction) ==
    IF Len(m.history) = 0 THEN m
    ELSE LET entered == IF ~m.inHistoryMode
                        THEN [m EXCEPT !.inHistoryMode = TRUE,
                                       !.originalInput = m.value,
                                       !.historyIndex = Len(m.history) - 1]
                        ELSE [m EXCEPT !.historyIndex = @ + direction]
         IN  IF entered.historyIndex < -1
             THEN [entered EXCEPT !.historyIndex = -1, !.value = entered.originalInput,
                                  !.inHistoryMode = FALSE]
             ELSE IF entered.historyIndex >= Len(m.history)
             THEN [entered EXCEPT !.historyIndex = -1, !.value = <<>>,
                                  !.inHistoryMode = FALSE]
             ELSE IF entered.historyIndex >= 0
             THEN [entered EXCEPT !.value = GetMessageAt(m.history, entered.historyIndex)]
             ELSE entered

InputChars == {"/", "k"}

Keys == InputChars \cup {"up", "down", "enter", "esc", "ctrl+c", "backspace"}

\* textInput.Update(msg)
TextInputUpdate(v, key) ==
    IF key \in InputChars THEN Append(v, key)
    ELSE IF key = "backspace" /\ v # <<>> THEN SubSeq(v, 1, Len(v) - 1)
    ELSE v

\* Update on a key while the slash command menu is shown, for the keys of
\* the menu.
SlashMenuKey(m, key) ==
    LET n == Len(m.filteredCommands)
    IN  CASE key \in {"up", "k"} ->
               IF n > 0
               THEN [m EXCEPT !.slashCommandCursor = IF @ - 1 < 0 THEN n - 1 ELSE @ - 1]
               ELSE m
          [] key = "down" ->
               IF n > 0
               THEN [m EXCEPT !.slashCommandCursor = IF @ + 1 >= n THEN 0 ELSE @ + 1]
               ELSE m
          [] key = "enter" ->
               IF n > 0 /\ m.slashCommandCursor < n
               THEN LET selectedCommand == m.filteredCommands[m.slashCommandCursor + 1]
                    IN  [m EXCEPT !.history = AddMessage(@, selectedCommand.Name),
                                  !.showingSlashCommands = FALSE,
                                  !.value = <<>>,
                                  !.lastEnter = [ran |-> TRUE, value |-> m.value],
                                  !.pc = IF selectedCommand.Name \in
                                              {GetAvailableCommands[1].Name,
                                               GetAvailableCommands[2].Name,
                                               GetAvailableCommands[3].Name}
                                         THEN "quit" ELSE "run"]
               ELSE m
          [] key = "esc" -> [m EXCEPT !.showingSlashCommands = FALSE, !.value = <<>>]

\* The end of Update: typing leaves history mode, the text input handles
\* the key, and the menu follows the text.
UpdateTail(m, key) ==
    LET typed == IF m.inHistoryMode /\ key \notin {"ctrl+c", "esc", "enter", "up", "down"}
                 THEN exitHistoryMode(m) ELSE m
        inputValue == TextInputUpdate(typed.value, key)
        filtered == FilterCommands(inputValue)
    IN  IF HasPrefixSlash(inputValue)
        THEN [typed EXCEPT !.value = inputValue,
                           !.showingSlashCommands = TRUE,
                           !.filteredCommands = filtered,
                           !.slashCommandCursor = IF @ >= Len(filtered) THEN 0 ELSE @]
        ELSE [typed EXCEPT !.value = inputValue, !.showingSlashCommands = FALSE]

\* Update on a key outside of the menu; recent says whether the last
\* Ctrl+C is less than two seconds old.
RegularKey(m, key, recent) ==
    LET reset == [m EXCEPT !.ctrlCPressed = FALSE]
    IN  CASE key = "ctrl+c" ->
               IF m.ctrlCPressed /\ recent THEN [m EXCEPT !.pc = "quit"]
               ELSE LET cleared == [m EXCEPT !.value = <<>>, !.ctrlCPressed = TRUE]
                    IN  IF m.inHistoryMode THEN exitHistoryMode(cleared) ELSE cleared
          [] key = "enter" ->
               IF m.value # <<>>
               THEN IF m.value \in {<<"e", "x", "i", "t">>, <<"h", "e", "l", "p">>}
                    THEN [reset EXCEPT !.pc = "quit"]
                    ELSE LET added == [reset EXCEPT !.history = AddMessage(@, m.value)]
                         IN  [(IF m.inHistoryMode THEN exitHistoryMode(added) ELSE added)
                                 EXCEPT !.value = <<>>]
               ELSE UpdateTail(reset, key)
          [] key = "up" -> UpdateTail(navigateHistory(reset, -1), key)
          [] key = "down" ->
               UpdateTail(IF m.inHistoryMode THEN navigateHistory(reset, 1) ELSE reset, key)
          [] OTHER -> UpdateTail(reset, key)

\* InputModel.Update, case tea.KeyMsg
UpdateKey(m, key, recent) ==
    IF m.showingSlashCommands /\ key \in {"up", "k", "down", "enter", "esc"}
    THEN SlashMenuKey(m, key)
    ELSE RegularKey(m, key, recent)

InputKey(key) ==
    /\ inputModel.pc = "run"
    /\ key \in InputChars => Len(inputModel.value) < MaxInput
    /\ \E recent \in BOOLEAN :
          /\ inputModel' = UpdateKey(inputModel, key, recent)
          /\ Len(inputModel'.history) <= MaxHistory
    /\ UNCHANGED <<sessionVars, toolVars, section, historyManager, modelSelect, audioBuffer>>

\* InputModel.Update, case timeoutMsg
InputTimeout ==
    /\ inputModel.pc = "run"
    /\ inputModel.ctrlCPressed
    /\ inputModel' = [inputModel EXCEPT !.ctrlCPressed = FALSE]
    /\ UNCHANGED <<sessionVars, toolVars, section, historyManager, modelSelect, audioBuffer>>

\* NewInputModel, with the history the history manager has loaded.
NewInputModel(history) ==
    [pc |-> "run", value |-> <<>>, showingSlashCommands |-> FALSE,
     filteredCommands |-> GetAvailableCommands, slashCommandCursor |-> 0,
     inHistoryMode |-> FALSE, historyIndex |-> -1, originalInput |-> <<>>,
     history |-> history, ctrlCPressed |-> FALSE,
     lastEnter |-> [ran |-> FALSE, value |-> <<>>]]

InitInput ==
    /\ InitSession("chat") /\ toolsEnabled /\ toolsOutput
    /\ ToolsIdle
    /\ section = Idle
    /\ historyManager = Idle
    /\ modelSelect = Idle
    /\ audioBuffer = Idle
    /\ inputModel \in {NewInputModel(h) :
                          h \in {<<>>, <<<<"k">>>>, <<<<"k">>, GetAvailableCommands[5].Name>>}}

NextInput == (\E key \in Keys : InputKey(key)) \/ InputTimeout

SpecInput == InitInput /\ [][NextInput]_vars

(***************************************************************************)
(* The model-selection screen (ModelSelectModel).  A tree item is a        *)
(* provider header or a model; the value of a model is a number, 0 is the  *)
(* empty value of a header.  cursor counts from 0 as in the source.  A key *)
(* press whose loop indexes the tree out of range ends the program with a  *)
(* panic; one whose loop never reaches its break does not return.          *)
(***************************************************************************)
\* The groups of models of the providers, in the order of the sorted names.
ProviderModels == SeqsUpTo(0..MaxModels, MaxProviders)

\* buildTreeItems
RECURSIVE buildTreeItems(_, _)
buildTreeItems(groups, p) ==
    IF groups = <<>> THEN <<>>
    ELSE <<[IsProvider |-> TRUE, Value |-> 0]>>
         \o [i \in 1..Head(groups) |-> [IsProvider |-> FALSE, Value |-> 10 * p + i]]
         \o buildTreeItems(Tail(groups), p + 1)

\* NewModelSelectModel: the cursor starts on the first model, or at 0.
NewModelSelectModel(treeItems) ==
    [pc |-> "run", treeItems |-> treeItems, selectedModel |-> 0,
     cursor |-> IF \E i \in DOMAIN treeItems : ~treeItems[i].IsProvider
                THEN (CHOOSE i \in DOMAIN treeItems :
                          /\ ~treeItems[i].IsProvider
                          /\ \A j \in 1..(i - 1) : treeItems[j].IsProvider) - 1
                ELSE 0]

\* The for loop of "up" (direction -1) and of "down" (direction 1) from
\* cursor; seen are the cursors the loop has left without a break.  The
\* loop has no other state, so a cursor it reaches twice is reached forever.
RECURSIVE MoveCursor(_, _, _, _, _)
MoveCursor(treeItems, cursor, originalCursor, direction, seen) ==
    LET n == Len(treeItems)
        stepped == cursor + direction
        next == IF direction < 0
                THEN (IF stepped < 0 THEN n - 1 ELSE stepped)
                ELSE (IF stepped >= n THEN 0 ELSE stepped)
    IN  IF next < n /\ next < 0 THEN [pc |-> "panic", cursor |-> next]
        ELSE IF next < n /\ (~treeItems[next + 1].IsProvider \/ next = originalCursor)
        THEN [pc |-> "run", cursor |-> next]
        ELSE IF next \in seen THEN [pc |-> "hang", cursor |-> next]
        ELSE MoveCursor(treeItems, next, originalCursor, direction, seen \cup {next})

\* ModelSelectModel.Update, case tea.KeyMsg
SelectUpdate(m, key) ==
    CASE key \in {"up", "down"} ->
           LET moved == MoveCursor(m.treeItems, m.cursor, m.cursor,
                                   IF key = "up" THEN -1 ELSE 1, {})
           IN  [m EXCEPT !.pc = moved.pc, !.cursor = moved.cursor]
      [] key = "enter" ->
           IF Len(m.treeItems) > 0 /\ m.cursor < Len(m.treeItems)
              /\ ~m.treeItems[m.cursor + 1].IsProvider
              /\ m.treeItems[m.cursor + 1].Value # 0
           THEN [m EXCEPT !.selectedModel = m.treeItems[m.cursor + 1].Value, !.pc = "quit"]
           ELSE m
      [] key = "esc" -> [m EXCEPT !.pc = "quit"]

SelectKey(key) ==
    /\ modelSelect.pc = "run"
    /\ modelSelect' = SelectUpdate(modelSelect, key)
    /\ UNCHANGED <<sessionVars, toolVars, section, inputModel, historyManager, audioBuffer>>

InitSelect ==
    /\ InitSession("chat") /\ toolsEnabled /\ toolsOutput
    /\ ToolsIdle
    /\ section = Idle
    /\ inputModel = Idle
    /\ historyManager = Idle
    /\ audioBuffer = Idle
    /\ modelSelect \in {NewModelSelectModel(buildTreeItems(g, 1)) : g \in ProviderModels}

NextSelect == \E key \in {"up", "down", "enter", "esc"} : SelectKey(key)

SpecSelect == InitSelect /\ [][NextSelect]_vars

(***************************************************************************)
(* speech.Listen and its ring buffer (internal/speech/listener.go).  The   *)
(* capture goroutine writes one frame per stream.Read; the loop of Listen  *)
(* looks at the buffer on every tick of processTicker.  The buffer has no  *)
(* lock: a tick that falls into a write sees writePos after any number of  *)
(* the samples of the frame.  written is history: the samples written so   *)
(* far, counted up to the size of the buffer; ticked whether a tick has     *)
(* looked at the buffer, windows whether a window was read.                *)
(***************************************************************************)
frameSize == 1024

\* cfg.SampleRate
SampleRates == {8000, 16000}

\* How much of the frame in progress a tick may see.
PartialFrames == {0, 1, 512, 1023, 1024}

\* audioBuffer.available
available(writePos, readPos, size) ==
    IF writePos >= readPos THEN writePos - readPos ELSE size - readPos + writePos

\* audioBuffer.read: the number of samples it copies.
ReadCount(writePos, readPos, size, n) ==
    IF available(writePos, readPos, size) < n THEN available(writePos, readPos, size) ELSE n

newAudioBuffer(sampleRate) ==
    [pc |-> "listening", SampleRate |-> sampleRate, size |-> sampleRate * 3,
     writePos |-> 0, readPos |-> 0, writing |-> FALSE, written |-> 0,
     ticked |-> FALSE, windows |-> FALSE]

\* The capture goroutine: stream.Read has returned a frame and write begins.
ListenCapture ==
    /\ audioBuffer.pc = "listening"
    /\ ~audioBuffer.writing
    /\ audioBuffer' = [audioBuffer EXCEPT !.writing = TRUE]
    /\ UNCHANGED <<sessionVars, toolVars, section, inputModel, historyManager, modelSelect>>

\* audioBuffer.write has stored the last sample of the frame.
ListenWritten ==
    /\ audioBuffer.pc = "listening"
    /\ audioBuffer.writing
    /\ audioBuffer' =
          [audioBuffer EXCEPT !.writing = FALSE,
                              !.writePos = (@ + frameSize) % audioBuffer.size,
                              !.written = IF @ + frameSize > audioBuffer.size
                                          THEN audioBuffer.size ELSE @ + frameSize]
    /\ UNCHANGED <<sessionVars, toolVars, section, inputModel, historyManager, modelSelect>>

\* case <-processTicker.C, outside of the cooldown.
ListenProcess ==
    /\ audioBuffer.pc = "listening"
    /\ \E partial \in (IF audioBuffer.writing THEN PartialFrames ELSE {0}) :
          LET writePos == (audioBuffer.writePos + partial) % audioBuffer.size
              requiredSamples == audioBuffer.SampleRate * 3
              avail == available(writePos, audioBuffer.readPos, audioBuffer.size)
          IN  IF avail >= requiredSamples
              THEN audioBuffer' =
                      [audioBuffer EXCEPT
                          !.ticked = TRUE,
                          !.windows = TRUE,
                          !.readPos = (@ + ReadCount(writePos, @, audioBuffer.size,
                                                     requiredSamples)) % audioBuffer.size]
              ELSE audioBuffer' = [audioBuffer EXCEPT !.ticked = TRUE]
    /\ UNCHANGED <<sessionVars, toolVars, section, inputModel, historyManager, modelSelect>>

\* case <-ctx.Done()
ListenDone ==
    /\ audioBuffer.pc = "listening"
    /\ audioBuffer' = [audioBuffer EXCEPT !.pc = "stopped", !.writing = FALSE]
    /\ UNCHANGED <<sessionVars, toolVars, section, inputModel, historyManager, modelSelect>>

InitListen ==
    /\ InitSession("chat") /\ toolsEnabled /\ toolsOutput
    /\ ToolsIdle
    /\ section = Idle
    /\ inputModel = Idle
    /\ historyManager = Idle
    /\ modelSelect = Idle
    /\ audioBuffer \in {newAudioBuffer(r) : r \in SampleRates}

NextListen == ListenCapture \/ ListenWritten \/ ListenProcess \/ ListenDone

SpecListen == InitListen /\ [][NextListen]_vars

\* The stream delivers frames and both tickers fire for as long as the
\* context is not cancelled.
SpecListenFair ==
    SpecListen /\ WF_vars(ListenCapture) /\ WF_vars(ListenWritten) /\ WF_vars(ListenProcess)

(***************************************************************************)
(* Properties.                                                             *)
(***************************************************************************)
InLoop(w) == worker[w].pc \in {"tools", "cs_load", "cs_store", "send"}

\* C1: turns are strictly serialized: an input is not accepted as the next
\* turn while the worker of an earlier turn has not had its aiResponseMsg
\* handled by Update, so at most one turn worker is in flight at any time.
C1_AtMostOneWorkerInFlight ==
    Cardinality({w \in Turns : InFlight(w)}) <= 1

\* C2: the response of a submitted input is recorded on the conversation
\* pair created for that input: no pair ever holds the response of another
\* submission, and a /tools status entry (turn 0) never holds the response
\* of a turn in place of its status line.
C2_ResponseOnOwnPair ==
    \A k \in DOMAIN conversation :
        conversation[k].respTurn # 0 => conversation[k].respTurn = conversation[k].turn

\* C3: the result list passed to SendToolResult has the length of the call
\* list returned by Chat and its k-th result carries the id of the k-th
\* call; while the loop runs the results are those of the calls handled so
\* far, in call order.
C3_ResultsMatchCalls ==
    \A w \in Turns :
        InLoop(w) =>
            /\ Len(worker[w].results) = worker[w].i - 1
            /\ worker[w].pc = "send" => Len(worker[w].results) = Len(worker[w].toolCalls)
            /\ \A k \in DOMAIN worker[w].results :
                  worker[w].results[k].ID = worker[w].toolCalls[k].ID

C3_Witness ==
    \E w \in Turns :
        /\ worker[w].pc = "send"
        /\ Len(worker[w].toolCalls) = 2
        /\ worker[w].toolCalls[1].ID # worker[w].toolCalls[2].ID
        /\ worker[w].toolCalls[1].Name = "no_such_tool"
        /\ worker[w].results[2].ID = "t2"

C5_OfferedTools ==
    [][\A w \in Turns :
          (worker[w].pc = "start" /\ worker'[w].pc = "chat") =>
              worker'[w].offered =
                  IF toolsEnabled
                  THEN {"list_tools", "get_model_version", "control_state", "bash", "read_file"}
                  ELSE {"list_tools", "get_model_version", "control_state"}]_vars

C5_Witness ==
    \E w \in Turns :
        /\ worker[w].pc = "tools"
        /\ worker[w].offered = {"list_tools", "get_model_version", "control_state"}
        /\ worker[w].toolCalls[1].Name = "control_state"

\* C6: a control_state call {toggle_tools, on} that starts with
\* tools_enabled = false leaves tools_enabled true when it returns, so that
\* a turn starting then is offered the full tool list.
C6_ToggleOnEnables ==
    [][\A w \in Turns :
          (/\ worker[w].pc = "cs_store"
           /\ worker'[w].pc # "cs_store"
           /\ ~worker[w].current
           /\ Enable(ParseInput(worker[w].toolCalls[worker[w].i].Input).value)) =>
              ProviderTools(toolsEnabled') = GetAllTools]_vars

\* C7: a turn submitted after switch_model has succeeded with target M2
\* (and before the user chooses a model again) is sent through the adapter
\* registered for M2, and the current model is still M2 when it is sent.
C7_SwitchTakesEffect ==
    \A w \in Turns :
        (worker[w].pc = "chat" /\ worker[w].after # "") =>
            /\ worker[w].adapter = ProviderFor(worker[w].after)
            /\ currentModel = worker[w].after

\* C8: when Chat or SendToolResult fails, the text recorded for the turn is
\* the single line "Error: " followed by the error, with no tool summary
\* and no assistant text, and the returned worker has kept no message of
\* the turn.
ErrorLine(text) ==
    /\ Len(text) = 3
    /\ text[1].text = "Error: "
    /\ text[2].text \in {"Chat error: ", "Tool result error: "}
    /\ \A k \in DOMAIN text : text[k].kind = "text"

HasProviderError(text) ==
    \E k \in DOMAIN text : text[k].text \in {"Chat error: ", "Tool result error: "}

C8_ErrorTurnOutput ==
    /\ \A w \in Turns :
          (worker[w].pc = "returned" /\ HasProviderError(worker[w].msg.response)) =>
              /\ worker[w].msg.isError
              /\ ErrorLine(RecordedResponse(worker[w].msg))
              /\ worker[w].messages = <<>>
    /\ \A k \in DOMAIN conversation :
          HasProviderError(conversation[k].AIResponse) => ErrorLine(conversation[k].AIResponse)

C8_Witness ==
    \E k \in DOMAIN conversation :
        /\ conversation[k].respTurn = conversation[k].turn
        /\ conversation[k].turn # 0
        /\ Len(conversation[k].AIResponse) = 3
        /\ conversation[k].AIResponse[2].text = "Tool result error: "

\* C9: the message list a turn passes to Chat is the system prompt, once
\* and first, then the messages of the earlier turns, then the new user
\* message: the list of turn N holds the user messages of turns 1..N.
UserMessages(msgs) == SelectSeq(msgs, LAMBDA m : m.Role = "user")

C9_ChatGetsHistory ==
    \A w \in Turns :
        worker[w].pc = "chat" =>
            /\ worker[w].messages[1] = ChatMessage("system", Text(SystemPrompt))
            /\ Len(SelectSeq(worker[w].messages, LAMBDA m : m.Role = "system")) = 1
            /\ Len(UserMessages(worker[w].messages)) = w
            /\ worker[w].messages[Len(worker[w].messages)]
                  = ChatMessage("user", Text(worker[w].userMessage))

\* C10: a control_state toggle_tools call with value v that reports "Tools
\* turned v" leaves GetToolsEnabled() equal to v when it returns, whatever
\* /tools commands the UI loop handles meanwhile.
C10_ReportedStateHolds ==
    [][\A w \in Turns :
          (worker[w].pc = "cs_store" /\ worker'[w].pc # "cs_store") =>
              LET res == worker'[w].results[Len(worker'[w].results)]
              IN  /\ res.Content = "Tools turned on" => toolsEnabled'
                  /\ res.Content = "Tools turned off" => ~toolsEnabled']_vars

\* C11: an even number of ToggleTools invocations returns tools_enabled to
\* its original value, also when they overlap: when a control_state toggle
\* completes and an odd number of other toggles has completed since it
\* began, the flag is back at the value it had when the toggle began.
C11_EvenTogglesRestore ==
    [][\A w \in Turns :
          (/\ worker[w].pc = "cs_store"
           /\ worker'[w].pc # "cs_store"
           /\ worker[w].flips) =>
              toolsEnabled' = worker[w].loaded]_vars

\* C12: a control_state toggle_tools or toggle_speech call without value
\* leaves the flag at the negation of the value it had when the call began;
\* with value on, enable, true or 1 it leaves it true and with value off,
\* disable, false or 0 it leaves it false.
OnValues == {"on", "enable", "true", "1"}

OffValues == {"off", "disable", "false", "0"}

Requested(value, prior) ==
    IF value = "" THEN ~prior ELSE IF value \in OnValues THEN TRUE ELSE FALSE

C12_ToggleValue ==
    [][\A w \in Turns :
          (/\ worker[w].pc \in {"tools", "cs_store"}
           /\ worker'[w].pc \in {"tools", "send"}
           /\ worker'[w].i = worker[w].i + 1) =>
              LET call == worker[w].toolCalls[worker[w].i]
                  in == ParseInput(call.Input)
                  known == in.value \in {""} \cup OnValues \cup OffValues
                  prior == IF worker[w].pc = "cs_store" THEN worker[w].current
                           ELSE toolsEnabled
              IN  /\ (call.Name = "control_state" /\ in.action = "toggle_tools" /\ known)
                        => toolsEnabled' = Requested(in.value, prior)
                  /\ (call.Name = "control_state" /\ in.action = "toggle_speech" /\ known)
                        => speechEnabled' = Requested(in.value, speechEnabled)]_vars

C14_SlashNegates ==
    [][/\ speechMode' # speechMode => speechEnabled' = ~speechEnabled
       /\ (/\ Len(conversation') = Len(conversation) + 1
           /\ conversation'[Len(conversation')].UserMessage = "/tools")
             => toolsEnabled' = ~toolsEnabled]_vars

\* C15: when the user selects a model in the /model screen, the current
\* model of the runtime state is the selected model as soon as the chat
\* screen resumes.
C15_ModelScreenSetsCurrent ==
    [][provider' # provider => currentModel' = provider']_vars

\* C16: within one turn the tool loop handles one level of tool calls: the
\* tools executed are those of the batch Chat returned, after SendToolResult
\* the turn returns without executing a tool or calling the provider again,
\* and a worker never goes back to Chat, so the provider is called at most
\* twice.
C16_OneLevelOfToolCalls ==
    [][\A w \in Turns :
          /\ worker[w].pc = "send" => worker'[w].pc \in {"send", "returned", "dropped"}
          /\ worker[w].pc \in {"tools", "cs_load", "cs_store", "send"} =>
                \/ worker'[w].toolCalls = worker[w].toolCalls
                \/ worker'[w].pc \in {"returned", "dropped"}
          /\ worker[w].pc \notin {"idle", "start", "chat"} =>
                worker'[w].pc \notin {"start", "chat"}
          /\ worker[w].pc \in {"returned", "delivered", "dropped"} =>
                worker'[w].pc \in {"returned", "delivered", "dropped"}]_vars

C16_Witness ==
    \E w \in Turns :
        /\ worker[w].pc = "returned"
        /\ ~worker[w].msg.isError
        /\ Len(worker[w].msg.response) = 2
        /\ worker[w].msg.response[1].kind = "summary"
        /\ Len(worker[w].msg.response[1].items) = 2
        /\ worker[w].msg.response[2].text = "done"

\* C17: every submitted input eventually has its conversation pair leave
\* the processing state (with the assistant text or an error line) for as
\* long as the session is not ended, also when the user opens /help or
\* /model while the turn is in flight.
Processing(k) == k \in DOMAIN conversation /\ conversation[k].IsProcessing

C17_PairLeavesProcessing ==
    \A k \in 1..MaxPairs : Processing(k) ~> (quitting \/ ~Processing(k))

\* C18: a first Ctrl+C arms the exit prompt without exiting, and the prompt
\* stays armed for 2 seconds from that press unless another key is pressed:
\* a tick delivered less than 2 seconds after the arming press (one that an
\* earlier press scheduled) does not disarm it, so that a second Ctrl+C
\* within the 2 seconds exits.
C18_ArmedForTwoSeconds ==
    [][/\ (~ctrlCPressed /\ ctrlCPressed') => (~quitting' /\ showExitPrompt')
       /\ \A d \in timers :
              (timers' = timers \ {d} /\ ctrlCPressed /\ now < ctrlCTime + 2)
                  => ctrlCPressed']_vars

\* C19: no provider, tool or unknown-model error ends the session, and every
\* failed turn produces a visible line: the session starts quitting only in
\* a step of the user that leaves every turn alone, and the error message a
\* turn returned stays pending until it is recorded as an error line.
C19_ErrorsVisibleNoExit ==
    [][/\ (~quitting /\ quitting') => (worker' = worker /\ conversation' = conversation)
       /\ \A w \in Turns :
              (worker[w].pc = "returned" /\ worker[w].msg.isError) =>
                  \/ worker'[w] = worker[w]
                  \/ /\ worker'[w].pc = "delivered"
                     /\ \E k \in DOMAIN conversation' :
                            ErrorLine(conversation'[k].AIResponse)]_vars

\* C20: once the user has exited, the turn in flight is cancelled: a
\* provider call that returns after the exit returns the cancellation as an
\* error, and a bash executor that returns after the exit returns an error
\* result instead of the output of a completed command.
C20_ExitCancelsTurn ==
    [][quitting =>
         \A w \in Turns :
            /\ (worker[w].pc \in {"chat", "send"} /\ worker'[w] # worker[w]) =>
                   \/ worker'[w].pc = "dropped"
                   \/ worker'[w].pc = "returned" /\ worker'[w].msg.isError
            /\ (/\ worker[w].pc = "tools"
                /\ worker[w].toolCalls[worker[w].i].Name = "bash"
                /\ Len(worker'[w].results) = Len(worker[w].results) + 1) =>
                   worker'[w].results[Len(worker'[w].results)].IsError]_vars

\* C21: a script whose lowercased text contains a denylisted substring is
\* answered with is_error = true and the shell is never started for it.
C21_DenylistBeforeShell ==
    (\E k \in DOMAIN dangerousCommands :
         Contains(ToLower(bashRun.script), dangerousCommands[k])) =>
        /\ ~bashRun.shell
        /\ bashRun.pc # "running"
        /\ bashRun.pc = "returned" => bashRun.result.IsError

\* A script that only matches after lowercasing ("SU") has been rejected.
C21_Witness ==
    /\ bashRun.pc = "returned"
    /\ bashRun.script = <<"S", "u">>
    /\ bashRun.result.IsError
    /\ ~bashRun.shell

\* C22: the script runs with 30 seconds when no timeout is requested and
\* with min(requested, 300) seconds for every positive request.
C22_TimeoutCapped ==
    bashRun.shell =>
        /\ bashRun.execTimeout <= 300
        /\ bashRun.timeout = 0 => bashRun.execTimeout = 30
        /\ bashRun.timeout > 0 =>
               bashRun.execTimeout = (IF bashRun.timeout < 300 THEN bashRun.timeout ELSE 300)

\* A relative path leaves the working directory when some prefix of it has
\* more ".." segments than segments that go down.
Escapes(segs) ==
    \E n \in 1..Len(segs) :
        Cardinality({i \in 1..n : segs[i] = ".."}) >
            Cardinality({i \in 1..n : segs[i] # ".."})

\* C23: read_file answers every non-local path (absolute, or with ".."
\* segments that escape the working directory) with is_error = true without
\* reading a file, and never opens a file outside the working directory.
C23_ReadStaysLocal ==
    readRun.pc = "returned" =>
        /\ (readRun.abs \/ Escapes(readRun.segs)) =>
               (readRun.result.IsError /\ readRun.opened = "none")
        /\ readRun.opened \in {"none", "W/a", "W/d/a"}

\* C24: the UI never starts with a configuration that has no name, no
\* providers, a provider with an empty model list, or a default_model that
\* is not a registered model.
C24_InvalidConfigNeverStarts ==
    LET me == boot.callers["StartUI"]
    IN  (boot.pc = "run" /\ me.pc = "started") =>
            /\ me.cfg.Name # ""
            /\ Configured(me.cfg) # {}
            /\ \A p \in Configured(me.cfg) : me.cfg.Providers[p].Models # <<>>
            /\ me.cfg.DefaultModel # "" => me.cfg.DefaultModel \in RegModels(boot.map)

\* C25: after the registry is built, a configured provider whose key is
\* empty or still the placeholder was skipped and no model maps to it; every
\* model listed under a provider build knows and did not skip resolves
\* through ProviderFor; and Init returns an error iff no model is registered.
C25_RegistryBuild ==
    LET me == boot.callers["StartUI"]
        known == {BuildOrder[i] : i \in DOMAIN BuildOrder}
    IN  (boot.pc = "run" /\ boot.once = "done") =>
            /\ \A p \in Configured(me.cfg) \cap known :
                   me.cfg.Providers[p].Key \in {"", Placeholder(p)} =>
                       (p \in boot.skipped /\ \A e \in boot.map : e[2] # p)
            /\ \A p \in (Configured(me.cfg) \cap known) \ boot.skipped :
                   \A m \in ModelsOf(me.cfg, p) : RegProviderForOk(boot.map, m)
            /\ (me.ret = "err") <=> (RegModels(boot.map) = {})
            /\ boot.registryInitError <=> (RegModels(boot.map) = {})

\* A build that skipped openai, whose key was a placeholder of a variable
\* that is not set, and registered the models of gemini.
C25_Witness ==
    /\ boot.pc = "run" /\ boot.once = "done"
    /\ boot.callers["StartUI"].file.Providers["openai"].Key = Placeholder("openai")
    /\ boot.callers["StartUI"].file.Providers["openai"].Models = <<"M1">>
    /\ boot.skipped = {"openai"}
    /\ RegModels(boot.map) = {"M3", "M5"}
    /\ boot.callers["StartUI"].ret = "ok"

\* C26: the registry is built once per process: build is entered at most
\* once, modelToProvider and registryInitError do not change after it,
\* every Init call returns only when the build is complete and returns its
\* result, and a read after Init sees the complete map.
C26_BuiltOnce ==
    [][/\ boot'.builds <= 1
       /\ boot.once = "done" =>
              (boot'.map = boot.map /\ boot'.registryInitError = boot.registryInitError)
       /\ \A c \in Callers :
              /\ boot'.callers[c].ret # "none" =>
                     /\ boot'.once = "done"
                     /\ boot'.callers[c].ret = (IF boot'.registryInitError THEN "err" ELSE "ok")
              /\ boot'.callers[c].pc = "done" =>
                     boot'.callers[c].seen = RegModels(boot'.map)]_vars

\* GetAvailableModels built the registry from its gemini configuration;
\* StartUI, which loaded a configuration without any key, waited for that
\* build and started with its result.
C26_Witness ==
    /\ boot.pc = "run" /\ boot.builds = 1
    /\ boot.callers["GetAvailableModels"].i > Len(BuildOrder)
    /\ boot.callers["GetAvailableModels"].pc = "done"
    /\ boot.callers["GetAvailableModels"].seen = {"M3", "M5"}
    /\ boot.callers["StartUI"].cfg.Providers["gemini"] = NoProvider
    /\ boot.callers["StartUI"].cfg.Providers["openai"].Key = ""
    /\ boot.callers["StartUI"].waited
    /\ boot.callers["StartUI"].pc = "started"
    /\ boot.callers["StartUI"].defaultModel = "M3"

\* C27: the tool calls of one response of any adapter carry pairwise
\* distinct ids.
C27_ToolCallIdsDistinct ==
    wire.pc = "returned" =>
        \A i, j \in DOMAIN wire.toolUses :
            i # j => wire.toolUses[i].ID # wire.toolUses[j].ID

IsSystem(m) == m.Role = "system"

NotSystem(m) == m.Role # "system"

\* C29: when the conversation has a system message, its content is the
\* system prompt the backend receives: outside of the message array for
\* Anthropic and Gemini, as the only system message of the array for the
\* other adapters, whatever the configured default is.
C29_SystemPromptDelivered ==
    (wire.pc \in {"sent", "returned"} /\ HasSystemMessage(wire.messages)) =>
        IF wire.adapter \in {"anthropic", "gemini"}
        THEN /\ wire.request.system = "SYS"
             /\ SelectSeq(wire.request.messages, IsSystem) = <<>>
        ELSE SelectSeq(wire.request.messages, IsSystem) = <<ChatMessage("system", "SYS")>>

\* C30: for the OpenAI-compatible, Mistral and Anthropic adapters the
\* message array of the request holds the non-system messages of the
\* conversation, each once and in order, tool messages as user messages.
C30_MessagesCarriedInOrder ==
    (wire.pc \in {"sent", "returned"} /\ wire.adapter # "gemini") =>
        LET conv == SelectSeq(wire.messages, NotSystem)
            sent == SelectSeq(wire.request.messages, NotSystem)
        IN  sent = [i \in DOMAIN conv |->
                       ChatMessage(IF conv[i].Role = "tool" THEN "user" ELSE conv[i].Role,
                                   conv[i].Content)]

\* Anthropic was sent a conversation with two tool results between other
\* messages.
C30_Witness ==
    /\ wire.pc = "sent"
    /\ wire.adapter = "anthropic"
    /\ wire.messages = <<ChatMessage("system", "SYS"), ChatMessage("user", "u1"),
                         ChatMessage("tool", "r1"), ChatMessage("tool", "r2")>>
    /\ wire.request.messages = <<ChatMessage("user", "u1"), ChatMessage("user", "r1"),
                                 ChatMessage("user", "r2")>>

\* C28: a tool name is registered once: in the registry no two places, in
\* one toolbox or in two, hold the same name, so GetToolByName finds one
\* definition for it.
C28_ToolNamesUnique ==
    toolboxes.pc = "run" =>
        \A name \in DefinitionNames : Cardinality(Found(toolboxes.registry, name)) <= 1

\* C31 as stated: the summary line "[Used tools: ...]" of a turn has one
\* entry per tool call of the turn, in call order, calls to tools that were
\* not found included, so as many entries as there are tool results.
C31_EntryPerCall ==
    \A w \in Turns :
        worker[w].pc = "send" =>
            /\ Len(worker[w].used) = Len(worker[w].results)
            /\ \A k \in DOMAIN worker[w].used :
                  worker[w].used[k].name = worker[w].toolCalls[k].Name

Registered(call) == GetToolByName(call.Name)

\* C31, amended: the summary line has one entry per tool call whose tool is
\* registered, in call order, calls whose execution failed included; a call
\* to a tool that was not found has a result and no entry.
C31_EntryPerRegisteredCall ==
    \A w \in Turns :
        InLoop(w) =>
            LET handled == SubSeq(worker[w].toolCalls, 1, Len(worker[w].results))
                ran == SelectSeq(handled, Registered)
            IN  /\ Len(worker[w].used) = Len(ran)
                /\ \A k \in DOMAIN ran : worker[w].used[k].name = ran[k].Name

\* A turn with a call to an unknown tool and a bash call that failed is
\* about to send its results: the summary lists bash only.
C31_Witness ==
    \E w \in Turns :
        /\ worker[w].pc = "send"
        /\ Len(worker[w].toolCalls) = 2
        /\ worker[w].toolCalls[1].Name = "no_such_tool"
        /\ worker[w].toolCalls[2].Name = "bash"
        /\ worker[w].results[2].IsError
        /\ Len(worker[w].used) = 1
        /\ worker[w].used[1].name = "bash"

\* C32: the tool-output section of the consolidated message has at most 40
\* lines and at most 4000 characters, and when the output had more lines or
\* more characters than that the section ends with the marker
\* "... (output truncated)".
C32_SectionWithinLimits ==
    section.pc = "done" =>
        LET all == ToolOutputs(section.results)
        IN  /\ Len(section.combined) <= 40
            /\ JoinedLen(section.combined) <= 4000
            /\ (Len(all) > 40 \/ JoinedLen(all) > 4000) =>
                  section.combined[Len(section.combined)].kind = "output truncated"

\* C33: a turn that read tools_enabled = false (it offered the core toolbox
\* only) runs no executor outside of the core toolbox, whatever tool the
\* response of the provider names.
C33_DisabledToolsNotRun ==
    \A w \in Turns :
        (InLoop(w) /\ worker[w].offered = CoreToolbox) =>
            \A k \in DOMAIN worker[w].used : worker[w].used[k].name \in CoreToolbox

\* C34: the current model is unset or a model for which ProviderFor
\* succeeds; a switch_model call that reports success never leaves it
\* naming a model that is not registered.
C34_CurrentModelRegistered ==
    currentModel = "" \/ ProviderForOk(currentModel)

Occurrences(history, message) ==
    Cardinality({i \in DOMAIN history : history[i] = message})

\* C38: for every history file, after AddMessage(m) with a non-blank m the
\* trimmed m is in the history exactly once, as its last entry, and the
\* history never has more than 100 entries.
C38_AddedOnceAndLast ==
    historyManager.pc = "ready" =>
        /\ Len(historyManager.history) <= 100
        /\ TrimSpace(historyManager.last) # <<>> =>
              /\ historyManager.history[Len(historyManager.history)]
                     = TrimSpace(historyManager.last)
              /\ Occurrences(historyManager.history, TrimSpace(historyManager.last)) = 1

\* C35: after every Update the slash command menu is shown only if the text
\* of the input begins with "/", and Enter never runs a slash command
\* while the input is empty.
C35_MenuOnlyOnSlash ==
    /\ (inputModel.pc = "run" /\ inputModel.showingSlashCommands)
          => HasPrefixSlash(inputModel.value)
    /\ inputModel.pc # "idle" =>
          (inputModel.lastEnter.ran => inputModel.lastEnter.value # <<>>)

\* C37: in history mode 0 <= historyIndex < number of entries and the text
\* of the input is the entry at historyIndex; outside of history mode
\* historyIndex = -1.
C37_HistoryIndexInRange ==
    inputModel.pc = "run" =>
        IF inputModel.inHistoryMode
        THEN /\ 0 <= inputModel.historyIndex
             /\ inputModel.historyIndex < Len(inputModel.history)
             /\ inputModel.value = inputModel.history[inputModel.historyIndex + 1]
        ELSE inputModel.historyIndex = -1

\* C39: in the model-selection screen every Up and Down key press returns,
\* for every tree, the empty one included, and leaves the cursor in range
\* on a model row when the tree has one.
C39_CursorOnModelRow ==
    /\ modelSelect.pc \notin {"panic", "hang"}
    /\ (/\ modelSelect.pc = "run"
        /\ \E i \in DOMAIN modelSelect.treeItems : ~modelSelect.treeItems[i].IsProvider)
          => /\ modelSelect.cursor \in 0..(Len(modelSelect.treeItems) - 1)
             /\ ~modelSelect.treeItems[modelSelect.cursor + 1].IsProvider

\* C40: once the capture goroutine has written three seconds of audio
\* (SampleRate*3 samples) into the ring buffer, a tick of Listen eventually
\* finds available() >= SampleRate*3 and reads the window, unless the
\* context is cancelled first.
C40_WindowEventuallyRead ==
    (audioBuffer.pc = "listening" /\ audioBuffer.written >= audioBuffer.SampleRate * 3)
        ~> (audioBuffer.windows \/ audioBuffer.pc = "stopped")

\* C36: after Init every registered model is served by the adapter of one
\* configured provider, ModelsByProvider lists a model only under the
\* provider whose adapter serves it, and GetInitializedProviders reports a
\* provider as initialized only when its adapter serves a model.
C36_ReportedUnderServingProvider ==
    boot.pc = "run" /\ boot.once = "done" =>
        LET cfg == boot.callers["StartUI"].cfg
            byProvider == ModelsByProvider(cfg, boot.map)
            status == GetInitializedProviders(cfg, boot.map)
        IN  /\ \A m \in RegModels(boot.map) :
                  /\ Cardinality({e \in boot.map : e[1] = m}) = 1
                  /\ \A e \in boot.map : e[1] = m => e[2] \in Configured(cfg)
            /\ \A p \in DOMAIN byProvider : \A i \in DOMAIN byProvider[p] :
                  <<byProvider[p][i], p>> \in boot.map
            /\ \A p \in DOMAIN status :
                  status[p] => \E m \in RegModels(boot.map) : <<m, p>> \in boot.map
====
